---- MODULE Spec2Model ----
(***************************************************************************)
(* A state-machine model of aws-az-failure-chaostoolkit (azchaosaws): the  *)
(* fail_az / recover_az entry points of each service module, the state     *)
(* file helpers, and the slice of the cloud API they call.                 *)
(*                                                                         *)
(* One action models one whole entry-point invocation.  The cloud is a set  *)
(* of variables (one per resource kind); every API call an invocation makes *)
(* is appended, in order, to `calls`, and `last` records how the           *)
(* invocation ended.  Python lists are sequences, dicts are records.       *)
(***************************************************************************)
EXTENDS Naturals, Sequences, FiniteSets, TLC

VARIABLES
    service,    \* the service module the experiment drives
    fs,         \* the local file system: path -> [kind, content]
    asgs,       \* Auto Scaling groups: name -> group description
    ec2,        \* EC2: subnet tags, network ACLs and associations, instances
    elbs,       \* classic load balancers: name -> description
    albs,       \* application/network load balancers: name -> description
    rds,        \* RDS: DB instances and DB clusters
    mq,         \* MQ brokers: id -> description
    eks,        \* EKS clusters: name -> tags and node groups
    calls,      \* API calls issued by the last invocation, in order
    last,       \* summary of the last invocation
    inflight    \* invocations that run side by side: where each one stands

vars == <<service, fs, asgs, ec2, elbs, albs, rds, mq, eks, calls, last, inflight>>

(***************************************************************************)
(* Bounds of the model.                                                    *)
(***************************************************************************)
MaxCapacity == 2

(***************************************************************************)
(* Generic helpers.                                                        *)
(***************************************************************************)
Range(s) == {s[i] : i \in DOMAIN s}

\* All enumerations of a finite set: the orders in which Python may iterate
\* over a set() (list(set(...)) has no specified order).
Orders(S) == {s \in [1..Cardinality(S) -> S] : Range(s) = S}

Call(api, target, args) == [api |-> api, target |-> target, args |-> args]

None == "None"

(***************************************************************************)
(* The cloud's fixed topology: availability zones and subnets.             *)
(***************************************************************************)
AZs == {"az-a", "az-b", "az-c"}

Subnets == {"s1", "s2", "s3", "s4", "s5"}

SubnetAZ == [s \in Subnets |->
               CASE s = "s1" -> "az-a"
                 [] s = "s2" -> "az-b"
                 [] s = "s3" -> "az-c"
                 [] s = "s5" -> "az-b"
                 [] OTHER    -> "az-a"]

\* The order in which the service lists subnets in a describe response.
SubnetOrder == <<"s1", "s2", "s3", "s4", "s5">>

\* Requests: the target AZ, the dry_run flag and the tag lists tried.
TargetAZs == {"az-a", "az-b"}

Tag(k, v) == [Key |-> k, Value |-> v]

DefaultTags == <<Tag("AZ_FAILURE", "True")>>

TagInputs == {DefaultTags, <<Tag("AZ_FAILURE", "True"), Tag("env", "prod")>>}

(***************************************************************************)
(* Paths.  A path is the sequence of its dot-separated components, so that *)
(* os.path.splitext and the appended ".<service>.json" are computed.       *)
(***************************************************************************)
Lower(tok) ==
    CASE tok \in {"JSON", "Json", "json"} -> "json"
      [] tok \in {"ASG", "asg"} -> "asg"
      [] OTHER -> tok

PathInputs == {<<"fail_az">>}

Services == {"asg", "ec2", "elb", "elbv2", "eks"}

\* Every path an invocation can read or write.
AllPaths == PathInputs \cup {p \o <<s, "json">> : p \in PathInputs, s \in Services}

\* `pinned`: the entry cannot be unlinked (its directory is read-only, or
\* another process holds the file open).
NoFile == [kind |-> "absent", content |-> <<>>, pinned |-> FALSE]
Dir == [kind |-> "dir", content |-> <<>>, pinned |-> FALSE]
File(doc) == [kind |-> "file", content |-> doc, pinned |-> FALSE]

isdir(f, path) == f[path].kind = "dir"
isfile(f, path) == f[path].kind = "file"

\* os.path.splitext(path)[1]: the last component, when there is more than one.
splitext_ext(path) == IF Len(path) > 1 THEN path[Len(path)] ELSE ""

\* A variant of validate_fail_az_path that rejects a new failure whenever a
\* state file exists, the file of a dry run included.
validate_fail_az_path_any_file(fail_if_exists, path, svc, f) ==
    IF isdir(f, path)
    THEN [ok |-> FALSE, path |-> path, error |-> "path is a directory"]
    ELSE LET p == IF Lower(splitext_ext(path)) # "json"
                  THEN path \o <<Lower(svc), "json">>
                  ELSE path
         IN IF isfile(f, p)
            THEN IF fail_if_exists
                 THEN [ok |-> FALSE, path |-> p, error |-> "existing state file"]
                 ELSE [ok |-> TRUE, path |-> p, error |-> ""]
            ELSE IF ~fail_if_exists
                 THEN [ok |-> FALSE, path |-> p, error |-> "no state file"]
                 ELSE [ok |-> TRUE, path |-> p, error |-> ""]

\* A variant of validate_fail_az_path that knows the extension in lower case
\* only.
validate_fail_az_path_case_sensitive(fail_if_exists, path, svc, f) ==
    IF isdir(f, path)
    THEN [ok |-> FALSE, path |-> path, error |-> "path is a directory"]
    ELSE LET p == IF splitext_ext(path) # "json"
                  THEN path \o <<Lower(svc), "json">>
                  ELSE path
         IN IF isfile(f, p)
            THEN IF fail_if_exists /\ ~f[p].content.DryRun
                 THEN [ok |-> FALSE, path |-> p, error |-> "existing state file"]
                 ELSE [ok |-> TRUE, path |-> p, error |-> ""]
            ELSE IF ~fail_if_exists
                 THEN [ok |-> FALSE, path |-> p, error |-> "no state file"]
                 ELSE [ok |-> TRUE, path |-> p, error |-> ""]

\* helpers.validate_fail_az_path: [ok, path, error].
validate_fail_az_path(fail_if_exists, path, svc, f) ==
    IF isdir(f, path)
    THEN [ok |-> FALSE, path |-> path, error |-> "path is a directory"]
    ELSE LET p == IF Lower(splitext_ext(path)) # "json"
                  THEN path \o <<Lower(svc), "json">>
                  ELSE path
         IN IF isfile(f, p)
            THEN IF fail_if_exists /\ ~f[p].content.DryRun
                 THEN [ok |-> FALSE, path |-> p, error |-> "existing state file"]
                 ELSE [ok |-> TRUE, path |-> p, error |-> ""]
            ELSE IF ~fail_if_exists
                 THEN [ok |-> FALSE, path |-> p, error |-> "no state file"]
                 ELSE [ok |-> TRUE, path |-> p, error |-> ""]

\* helpers.write_state / json.dump(state, open(path, "w")).
write_state(f, state, path) ==
    [f EXCEPT ![path] = [File(state) EXCEPT !.pinned = f[path].pinned]]

\* helpers.read_state / json.load(open(path)).
read_state(f, path) == f[path].content

\* A variant of remove_state that leaves the file on disk.
remove_state_kept(f, path) == f

\* os.remove(path): [fs, raised].  It raises OSError when the entry cannot
\* be unlinked.
os_remove(f, path) ==
    IF f[path].pinned THEN [fs |-> f, raised |-> TRUE]
    ELSE [fs |-> [f EXCEPT ![path] = NoFile], raised |-> FALSE]

\* os.remove(state_path) inside try/except: a failure is only logged.
remove_state(f, path) == os_remove(f, path).fs

(***************************************************************************)
(* How an invocation ends.  `w` is the cloud as the invocation left it     *)
(* together with the calls it issued.                                      *)
(***************************************************************************)
Raised(error, path, w, f) ==
    [result |-> "error", error |-> error, path |-> path, doc |-> <<>>,
     w |-> w, fs |-> f]

Returned(path, doc, w, f) ==
    [result |-> "ok", error |-> "", path |-> path, doc |-> doc,
     w |-> w, fs |-> f]

\* An API call is issued only if no exception has ended the invocation.
Logged(w, api, target, args) ==
    IF w.err # "" THEN w
    ELSE [w EXCEPT !.calls = Append(@, Call(api, target, args))]

\* An exception: the first one ends the invocation.
Failed(w, error) == IF w.err # "" THEN w ELSE [w EXCEPT !.err = error]

\* A change of the cloud by an accepted call.
Applied(w, changed) == IF w.err # "" THEN w ELSE changed

(***************************************************************************)
(* azchaosaws/asg/actions.py                                               *)
(***************************************************************************)
ASGNames == {"g1", "g2"}

\* ','.join(subnets): the string as its sequence of tokens.
RECURSIVE join(_)
join(subnets) ==
    IF subnets = <<>> THEN <<>>
    ELSE IF Len(subnets) = 1 THEN <<subnets[1]>>
    ELSE <<subnets[1], ",">> \o join(Tail(subnets))

\* VPCZoneIdentifier.split(","): "".split(",") is [""].
split(z) ==
    IF z = <<>> THEN <<"">> ELSE SelectSeq(z, LAMBDA t : t # ",")

\* The AvailabilityZones the service reports for a group: those of its subnets.
AvailabilityZonesOf(g) ==
    {SubnetAZ[s] : s \in Range(split(g.VPCZoneIdentifier)) \cap Subnets}

\* client.describe_auto_scaling_groups(AutoScalingGroupNames=asg_names);
\* every group of the model exists, so no name is invalid.
get_asg_by_name(w, asg) ==
    Logged(w, "describe_auto_scaling_groups", asg, <<>>)

\* describe_tags(Filters=[key=k1, value=v1, key=k2, value=v2, ...]): the
\* filters are joined with AND, each matched against one tag of a group.
get_asg_by_tags(as, tags) ==
    {g \in DOMAIN as :
        \E t \in as[g].Tags :
            \A i \in DOMAIN tags : t.Key = tags[i].Key /\ t.Value = tags[i].Value}

get_asgs_by_az(as, az) ==
    {g \in DOMAIN as : az \in AvailabilityZonesOf(as[g])}

asg_in_single_az(as, asg) == Cardinality(AvailabilityZonesOf(as[asg])) = 1

\* asg.suspend_processes(asg_names=[asg], process_names=[...]).
suspend_processes(w, asg, process_names) ==
    LET w1 == get_asg_by_name(w, asg)
        w2 == Logged(w1, "suspend_processes", asg, process_names)
        w3 == [w2 EXCEPT !.asgs[asg].SuspendedProcesses = @ \cup process_names]
    IN get_asg_by_name(w3, asg)

\* asg.resume_processes(asg_names=[asg], process_names=[...]).
resume_processes(w, asg, process_names) ==
    LET w1 == get_asg_by_name(w, asg)
        w2 == Logged(w1, "resume_processes", asg, process_names)
        w3 == [w2 EXCEPT !.asgs[asg].SuspendedProcesses = @ \ process_names]
    IN get_asg_by_name(w3, asg)

\* client.update_auto_scaling_group is rejected with a ClientError for a
\* group that is being deleted (Status "Delete in progress").
update_rejected(w, asg) == w.asgs[asg].Status = "Delete in progress"

\* asg.change_subnets(subnets, asg_names=[asg]).
change_subnets(w, subnets, asg) ==
    LET w1 == get_asg_by_name(w, asg)
        w2 == Logged(w1, "update_auto_scaling_group", asg,
                     [VPCZoneIdentifier |-> join(subnets)])
    IN IF update_rejected(w, asg)
       THEN Failed(w2, "ClientError update_auto_scaling_group")
       ELSE [w2 EXCEPT !.asgs[asg].VPCZoneIdentifier = join(subnets)]

\* remove_az_subnets as eks.fail_az calls it, with an Auto Scaling client
\* and an EC2 client (asg_client=, ec2_client=): AZRebalance is suspended,
\* then the subnets of the target AZ are removed from the group's subnet
\* list.  [w, results]
eks_remove_az_subnets(w, az, asg, dry_run) ==
    LET w1 == get_asg_by_name(w, asg)
        asg_response == w.asgs[asg]
        suspended_processes == asg_response.SuspendedProcesses
        w2 == IF ~dry_run THEN suspend_processes(w1, asg, {"AZRebalance"}) ELSE w1
        existing_subnets == split(asg_response.VPCZoneIdentifier)
        w3 == Logged(w2, "describe_subnets", asg, existing_subnets)
        non_az_subnets ==
            SelectSeq(existing_subnets, LAMBDA s : s \in Subnets /\ SubnetAZ[s] # az)
        w4 == IF ~dry_run
              THEN LET u == Logged(w3, "update_auto_scaling_group", asg,
                                   [VPCZoneIdentifier |-> join(non_az_subnets)])
                   IN [u EXCEPT !.asgs[asg].VPCZoneIdentifier = join(non_az_subnets)]
              ELSE w3
    IN [w |-> w4,
        results |->
          [AutoScalingGroupName |-> asg,
           Before |-> [SubnetIds |-> existing_subnets,
                       AZRebalance |-> "AZRebalance" \notin suspended_processes],
           After |-> [SubnetIds |-> non_az_subnets, AZRebalance |-> FALSE]]]

\* asg.remove_az_subnets(client, az, asg, dry_run, configuration):
\* [w, results].  The parameter `client` is the Auto Scaling client that
\* fail_az passes, and it hides the module's client() factory: the
\* expression client('ec2', configuration) of lines 408-409 calls that client
\* object, which is not callable, and raises TypeError.  The lines after it
\* (the describe_subnets call, the update and the results) are never run.
remove_az_subnets(w, az, asg, dry_run) ==
    LET w1 == get_asg_by_name(w, asg)
        w2 == IF ~dry_run THEN suspend_processes(w1, asg, {"AZRebalance"}) ELSE w1
    IN [w |-> Failed(w2, "TypeError"), results |-> <<>>]

\* A modify_capacity that reads the group after its update.
modify_capacity_read_late(w, asg, dry_run, min_size, max_size, desired_cap) ==
    LET u == Logged(w, "update_auto_scaling_group", asg,
                    [MinSize |-> min_size, MaxSize |-> max_size,
                     DesiredCapacity |-> desired_cap])
        w1 == IF ~dry_run
              THEN [u EXCEPT !.asgs[asg].MinSize = min_size,
                             !.asgs[asg].MaxSize = max_size,
                             !.asgs[asg].DesiredCapacity = desired_cap]
              ELSE w
        asg_response == w1.asgs[asg]
    IN [w |-> get_asg_by_name(w1, asg),
        results |->
          [AutoScalingGroupName |-> asg,
           Before |-> [MinSize |-> asg_response.MinSize,
                       MaxSize |-> asg_response.MaxSize,
                       DesiredCapacity |-> asg_response.DesiredCapacity],
           After |-> [MinSize |-> min_size, MaxSize |-> max_size,
                      DesiredCapacity |-> desired_cap]]]

\* asg.modify_capacity: [w, results].
modify_capacity(w, asg, dry_run, min_size, max_size, desired_cap) ==
    LET w1 == get_asg_by_name(w, asg)
        asg_response == w.asgs[asg]
        w2 == IF ~dry_run
              THEN LET u == Logged(w1, "update_auto_scaling_group", asg,
                                   [MinSize |-> min_size, MaxSize |-> max_size,
                                    DesiredCapacity |-> desired_cap])
                   IN IF update_rejected(w, asg)
                      THEN Failed(u, "ClientError update_auto_scaling_group")
                      ELSE [u EXCEPT !.asgs[asg].MinSize = min_size,
                                     !.asgs[asg].MaxSize = max_size,
                                     !.asgs[asg].DesiredCapacity = desired_cap]
              ELSE w1
    IN [w |-> w2,
        results |->
          [AutoScalingGroupName |-> asg,
           Before |-> [MinSize |-> asg_response.MinSize,
                       MaxSize |-> asg_response.MaxSize,
                       DesiredCapacity |-> asg_response.DesiredCapacity],
           After |-> [MinSize |-> min_size, MaxSize |-> max_size,
                      DesiredCapacity |-> desired_cap]]]

\* The loop of asg.fail_az over the target groups: [w, asgs_state].
RECURSIVE asg_fail_loop(_, _, _, _, _)
asg_fail_loop(w, az, dry_run, order, asgs_state) ==
    IF order = <<>> \/ w.err # "" THEN [w |-> w, asgs_state |-> asgs_state]
    ELSE LET asg == Head(order)
             w1 == Logged(w, "describe_auto_scaling_groups", asg, <<>>)
             rest(r) == asg_fail_loop(r.w, az, dry_run, Tail(order),
                                      Append(asgs_state, r.results))
         IN rest(IF asg_in_single_az(w.asgs, asg)
                 THEN modify_capacity(w1, asg, dry_run, 0, 0, 0)
                 ELSE remove_az_subnets(w1, az, asg, dry_run))

\* The groups asg.fail_az selects.
asg_targets(as, az, tags) == get_asg_by_tags(as, tags) \cap get_asgs_by_az(as, az)

\* asg.fail_az(az, dry_run, tags, state_path); `order` is the order in which
\* list(set) yields the target groups.
asg_fail_az(w, f, az, dry_run, tags, state_path, order) ==
    LET v == validate_fail_az_path(TRUE, state_path, "asg", f)
        w1 == Logged(w, "describe_tags", "*", tags)
        tagged_asgs == get_asg_by_tags(w.asgs, tags)
        w2 == Logged(w1, "describe_auto_scaling_groups", "*", <<>>)
        w3 == Logged(w2, "describe_auto_scaling_groups", "*", <<>>)
        r == asg_fail_loop(w3, az, dry_run, order, <<>>)
        fail_az_state == [AvailabilityZone |-> az, DryRun |-> dry_run,
                          AutoScalingGroups |-> r.asgs_state]
    IN IF az = None THEN Raised("no az", state_path, w, f)
       ELSE IF ~v.ok THEN Raised(v.error, v.path, w, f)
       ELSE IF tagged_asgs = {} THEN Raised("no tagged ASG", v.path, w1, f)
       ELSE IF asg_targets(w.asgs, az, tags) = {}
            THEN Raised("no ASG with tags in AZ", v.path, w3, f)
       ELSE IF r.w.err # "" THEN Raised(r.w.err, v.path, r.w, f)
       ELSE Returned(v.path, fail_az_state, r.w,
                     write_state(f, fail_az_state, v.path))

\* A variant of asg_recover_one that resumes AZRebalance whatever the record says.
asg_recover_one_resume_always(w, asg) ==
    LET name == asg.AutoScalingGroupName
        w1 == IF {"AZRebalance", "SubnetIds"} \subseteq DOMAIN asg.Before
              THEN change_subnets(resume_processes(w, name, {"AZRebalance"}),
                                  asg.Before.SubnetIds, name)
              ELSE w
    IN IF {"MinSize", "MaxSize", "DesiredCapacity"} \subseteq DOMAIN asg.Before
       THEN modify_capacity(w1, name, FALSE, asg.Before.MinSize,
                            asg.Before.MaxSize, asg.Before.DesiredCapacity).w
       ELSE w1

\* A variant of asg_recover_one that leaves the capacities as they are.
asg_recover_one_subnets_only(w, asg) ==
    LET name == asg.AutoScalingGroupName
    IN IF {"AZRebalance", "SubnetIds"} \subseteq DOMAIN asg.Before
       THEN LET u == IF asg.Before.AZRebalance
                     THEN resume_processes(w, name, {"AZRebalance"})
                     ELSE w
            IN change_subnets(u, asg.Before.SubnetIds, name)
       ELSE w

\* The body of asg.recover_az's loop: the rollback of one recorded group.
asg_recover_one(w, asg) ==
    LET name == asg.AutoScalingGroupName
        w1 == IF {"AZRebalance", "SubnetIds"} \subseteq DOMAIN asg.Before
              THEN LET u == IF asg.Before.AZRebalance
                            THEN resume_processes(w, name, {"AZRebalance"})
                            ELSE w
                   IN change_subnets(u, asg.Before.SubnetIds, name)
              ELSE w
    IN IF {"MinSize", "MaxSize", "DesiredCapacity"} \subseteq DOMAIN asg.Before
       THEN modify_capacity(w1, name, FALSE, asg.Before.MinSize,
                            asg.Before.MaxSize, asg.Before.DesiredCapacity).w
       ELSE w1

\* The loop of asg.recover_az over the recorded groups.
RECURSIVE asg_recover_loop(_, _)
asg_recover_loop(w, records) ==
    IF records = <<>> THEN w
    ELSE asg_recover_loop(asg_recover_one(w, Head(records)), Tail(records))

\* A variant of asg_recover_az that rolls back whatever document it reads,
\* the document of a dry run included.
asg_recover_az_any_document(w, f, state_path) ==
    LET v == validate_fail_az_path(FALSE, state_path, "asg", f)
        fail_az_state == read_state(f, v.path)
    IN IF ~v.ok THEN Raised(v.error, v.path, w, f)
       ELSE Returned(v.path, fail_az_state,
                     asg_recover_loop(w, fail_az_state.AutoScalingGroups),
                     remove_state(f, v.path))

\* asg.recover_az(state_path).
asg_recover_az(w, f, state_path) ==
    LET v == validate_fail_az_path(FALSE, state_path, "asg", f)
        fail_az_state == read_state(f, v.path)
    IN IF ~v.ok THEN Raised(v.error, v.path, w, f)
       ELSE IF fail_az_state.DryRun THEN Raised("dry run state", v.path, w, f)
       ELSE Returned(v.path, fail_az_state,
                     asg_recover_loop(w, fail_az_state.AutoScalingGroups),
                     remove_state(f, v.path))

(***************************************************************************)
(* azchaosaws/ec2/actions.py: network failure.                             *)
(*                                                                         *)
(* Identifiers the service hands out (network ACL ids, association ids)    *)
(* are the naturals 1, 2, ... in the order of issue; 0 stands for the      *)
(* empty string str().                                                     *)
(***************************************************************************)
MaxIds == 16

NoId == 0

VpcOf == [s \in Subnets |-> IF s = "s4" THEN "vpc-2" ELSE "vpc-1"]

BlackholeTag == Tag("Name", "blackhole_nacl")

Filter(name, values) == [Name |-> name, Values |-> values]

default_tag_filter == Filter(<<"tag", "AZ_FAILURE">>, {"True"})

az_filter(az) == Filter(<<"availability-zone">>, {az})

\* "tag:" in f["Name"]
is_tag_filter(f) == Len(f.Name) > 1 /\ f.Name[1] = "tag"

\* "availability-zone" in f["Name"]
is_az_filter(f) == "availability-zone" \in Range(f.Name)

\* "instance-state-name" in f["Name"]
is_state_filter(f) == "instance-state-name" \in Range(f.Name)

\* Discovery with the caller's filters and the az, without the default tag.
ec2_filters_without_default(az, filters) ==
    IF (~\E i \in DOMAIN filters : is_az_filter(filters[i])) /\ az # None
    THEN Append(filters, az_filter(az)) ELSE filters

\* ec2.fail_az lines 119-141: the filters used for discovery.
ec2_filters(az, filters) ==
    IF filters # <<>>
    THEN LET f1 == IF ~\E i \in DOMAIN filters : is_tag_filter(filters[i])
                   THEN Append(filters, default_tag_filter) ELSE filters
         IN IF (~\E i \in DOMAIN f1 : is_az_filter(f1[i])) /\ az # None
            THEN Append(f1, az_filter(az)) ELSE f1
    ELSE (IF az # None THEN <<az_filter(az)>> ELSE <<>>) \o <<default_tag_filter>>

\* Whether the resource `id` with tags `tags` in zone `az` passes one filter.
filter_matches(f, id, tags, az, state) ==
    IF is_tag_filter(f)
    THEN \E t \in tags : t.Key = f.Name[2] /\ t.Value \in f.Values
    ELSE IF f.Name = <<"availability-zone">> THEN az \in f.Values
    ELSE IF f.Name = <<"instance-state-name">> THEN state \in f.Values
    ELSE IF f.Name = <<"instance-id">> THEN id \in f.Values
    ELSE TRUE

\* ec2.describe_subnets(client, filters): the matching subnets, in the
\* service's order.
ec2_describe_subnets(e, filters) ==
    SelectSeq(SubnetOrder,
              LAMBDA sn : \A i \in DOMAIN filters :
                  filter_matches(filters[i], sn, e.subnet_tags[sn], SubnetAZ[sn], ""))

is_blackhole(e, acl_id) == BlackholeTag \in e.acls[acl_id].Tags

\* client.create_network_acl with the Name tag, then the two DENY entries
\* (rule 1, ingress and egress): [w, id].
create_blackhole_acl(w, vpc_id) ==
    LET id == w.ec2.ids + 1
        w1 == Logged(w, "create_network_acl", vpc_id, "blackhole_nacl")
        w2 == Applied(w1, [w1 EXCEPT !.ec2.ids = id,
                                     !.ec2.acls = [a \in DOMAIN @ \cup {id} |->
                                         IF a = id
                                         THEN [VpcId |-> vpc_id, Tags |-> {BlackholeTag}]
                                         ELSE @[a]]])
        w3 == Logged(w2, "create_network_acl_entry", vpc_id,
                     [NetworkAclId |-> id, RuleNumber |-> 1, Egress |-> FALSE])
        w4 == Logged(w3, "create_network_acl_entry", vpc_id,
                     [NetworkAclId |-> id, RuleNumber |-> 1, Egress |-> TRUE])
    IN [w |-> w4, id |-> id]

\* The subnet that holds association `association_id`, as a set.
subnet_of_association(e, association_id) ==
    {sn \in Subnets : e.assoc[sn].NetworkAclAssociationId = association_id}

\* client.replace_network_acl_association(AssociationId, NetworkAclId):
\* [w, NewAssociationId].  The service rejects an unknown association or ACL.
replace_network_acl_association(w, acl_id, association_id) ==
    LET w1 == Logged(w, "replace_network_acl_association", "",
                     [AssociationId |-> association_id, NetworkAclId |-> acl_id])
        held == subnet_of_association(w.ec2, association_id)
        new == w.ec2.ids + 1
    IN IF held = {} \/ acl_id \notin DOMAIN w.ec2.acls
       THEN [w |-> Failed(w1, "ClientError replace_network_acl_association"),
             NewAssociationId |-> NoId]
       ELSE LET sn == CHOOSE x \in held : TRUE
            IN [w |-> Applied(w1, [w1 EXCEPT !.ec2.ids = new,
                                             !.ec2.assoc[sn] =
                                                [NetworkAclAssociationId |-> new,
                                                 NetworkAclId |-> acl_id]]),
                NewAssociationId |-> new]

\* A variant of delete_network_acl that issues the call and leaves the ACL
\* in place.
delete_network_acl_skipped(w, acl_id) ==
    Logged(w, "delete_network_acl", "", [NetworkAclId |-> acl_id])

\* client.delete_network_acl(NetworkAclId): rejected for an unknown ACL and
\* for one that is still associated with a subnet.
delete_network_acl(w, acl_id) ==
    LET w1 == Logged(w, "delete_network_acl", "", [NetworkAclId |-> acl_id])
    IN IF acl_id \notin DOMAIN w.ec2.acls
          \/ \E sn \in Subnets : w.ec2.assoc[sn].NetworkAclId = acl_id
       THEN Failed(w1, "ClientError delete_network_acl")
       ELSE Applied(w1, [w1 EXCEPT !.ec2.acls =
                                      [a \in DOMAIN @ \ {acl_id} |-> @[a]]])

\* network_failure, lines 759-832: one association of a non-blackhole ACL
\* that belongs to a target subnet.  acc = [w, bh, results].
blackhole_subnet(acc, vpc_id, sn, association, dry_run) ==
    LET recorded(bh, r) ==
            [w |-> r.w, bh |-> bh,
             results |-> Append(acc.results,
                 [SubnetId |-> sn, VpcId |-> vpc_id,
                  Before |-> [NetworkAclAssociationId |-> association.NetworkAclAssociationId,
                              NetworkAclId |-> association.NetworkAclId],
                  After |-> [NetworkAclAssociationId |-> r.NewAssociationId,
                             NetworkAclId |-> bh]])]
        replaced(c) ==
            recorded(c.id,
                     IF ~dry_run
                     THEN replace_network_acl_association(
                              c.w, c.id, association.NetworkAclAssociationId)
                     ELSE [w |-> c.w, NewAssociationId |-> NoId])
    IN replaced(IF ~dry_run /\ acc.bh = NoId
                THEN create_blackhole_acl(acc.w, vpc_id)
                ELSE [w |-> acc.w, id |-> acc.bh])

\* network_failure, the loops over one VPC's ACLs and their associations;
\* `snapshot` is the describe_network_acls response taken before them.
RECURSIVE blackhole_vpc(_, _, _, _, _)
blackhole_vpc(acc, vpc_id, sns, snapshot, dry_run) ==
    IF sns = <<>> THEN acc
    ELSE LET sn == Head(sns)
             association == snapshot.assoc[sn]
             acl_id == association.NetworkAclId
             next == IF /\ VpcOf[sn] = vpc_id
                        /\ snapshot.acls[acl_id].VpcId = vpc_id
                        /\ ~is_blackhole(snapshot, acl_id)
                     THEN blackhole_subnet(acc, vpc_id, sn, association, dry_run)
                     ELSE acc
         IN blackhole_vpc(next, vpc_id, Tail(sns), snapshot, dry_run)

\* ec2.network_failure(client, vpc_ids, subnet_ids, dry_run): [w, results].
RECURSIVE network_failure(_, _, _, _, _)
network_failure(w, vpc_ids, subnet_ids, dry_run, results) ==
    IF vpc_ids = <<>> THEN [w |-> w, results |-> results]
    ELSE LET vpc_id == Head(vpc_ids)
             w1 == Logged(w, "describe_network_acls", vpc_id, subnet_ids)
             rest(acc) == network_failure(acc.w, Tail(vpc_ids), subnet_ids,
                                          dry_run, acc.results)
         IN rest(blackhole_vpc([w |-> w1, bh |-> NoId, results |-> results],
                               vpc_id, subnet_ids, w.ec2, dry_run))

(***************************************************************************)
(* azchaosaws/ec2/actions.py: instance failure.                            *)
(***************************************************************************)
InstanceOrder == <<"i1", "i2", "i3">>

InstanceIds == Range(InstanceOrder)

Indices(q) == [i \in 1..Len(q) |-> i]

\* client.describe_instances(Filters=filters): the ids, in the service's order.
describe_instances(e, filters) ==
    SelectSeq(InstanceOrder,
              LAMBDA id : \A i \in DOMAIN filters :
                  filter_matches(filters[i], id, e.instances[id].tags,
                                 e.instances[id].az, e.instances[id].state))

\* instance.get("InstanceLifecycle", "normal")
lifecycle_of(e, id) == e.instances[id].lifecycle

\* The keys of the lifecycle dictionary, in insertion order.
lifecycle_keys(e, ids) ==
    LET firsts == SelectSeq(Indices(ids), LAMBDA i :
                      \A j \in 1..(i - 1) : lifecycle_of(e, ids[j]) # lifecycle_of(e, ids[i]))
    IN [k \in DOMAIN firsts |-> lifecycle_of(e, ids[firsts[k]])]

\* instances_lifecycle[lifecycle]
of_lifecycle(e, ids, lifecycle) ==
    SelectSeq(ids, LAMBDA id : lifecycle_of(e, id) = lifecycle)

\* list_instances_by_lifecycle(client, filters): [w, ids]; the dictionary is
\* the pair lifecycle_keys / of_lifecycle over ids.
list_instances_by_lifecycle(w, filters) ==
    [w |-> Logged(w, "describe_instances", "", filters),
     ids |-> describe_instances(w.ec2, filters)]

\* The state an instance takes when asked to stop, to terminate, to start.
stop_state(state) ==
    IF state \in {"pending", "running", "stopping"} THEN "stopping" ELSE state

terminate_state(state) ==
    IF state = "terminated" THEN "terminated" ELSE "shutting-down"

start_state(state) == IF state = "stopped" THEN "pending" ELSE state

\* One instance's entry of a Stopping/Terminating/StartingInstances list.
state_change(e, id, to) ==
    [InstanceId |-> id, PreviousState |-> e.instances[id].state, CurrentState |-> to]

\* client.stop_instances(InstanceIds=ids, Force=force): [w, response].
api_stop_instances(w, ids, force) ==
    LET w1 == Logged(w, "stop_instances", "", [InstanceIds |-> ids, Force |-> force])
    IN [w |-> Applied(w1, [w1 EXCEPT !.ec2.instances =
                [id \in InstanceIds |->
                    IF id \in Range(ids)
                    THEN [@[id] EXCEPT !.state = stop_state(@)] ELSE @[id]]]),
        response |-> [key |-> "StoppingInstances",
                      items |-> [k \in DOMAIN ids |->
                          state_change(w.ec2, ids[k],
                                       stop_state(w.ec2.instances[ids[k]].state))]]]

\* client.terminate_instances(InstanceIds=ids): [w, response].
api_terminate_instances(w, ids) ==
    LET w1 == Logged(w, "terminate_instances", "", ids)
    IN [w |-> Applied(w1, [w1 EXCEPT !.ec2.instances =
                [id \in InstanceIds |->
                    IF id \in Range(ids)
                    THEN [@[id] EXCEPT !.state = terminate_state(@)] ELSE @[id]]]),
        response |-> [key |-> "TerminatingInstances",
                      items |-> [k \in DOMAIN ids |->
                          state_change(w.ec2, ids[k],
                                       terminate_state(w.ec2.instances[ids[k]].state))]]]

\* A client that never cancels a spot request.
api_cancel_spot_instance_requests_never(w, ids) == w

\* client.cancel_spot_instance_requests(SpotInstanceRequestIds=...), the
\* requests named by their instances.
api_cancel_spot_instance_requests(w, ids) ==
    LET w1 == Logged(w, "cancel_spot_instance_requests", "", ids)
    IN Applied(w1, [w1 EXCEPT !.ec2.instances =
                [id \in InstanceIds |->
                    IF id \in Range(ids)
                    THEN [@[id] EXCEPT !.request = "cancelled"] ELSE @[id]]])

\* client.start_instances(InstanceIds=ids)
api_start_instances(w, ids) ==
    LET w1 == Logged(w, "start_instances", "", ids)
    IN Applied(w1, [w1 EXCEPT !.ec2.instances =
                [id \in InstanceIds |->
                    IF id \in Range(ids)
                    THEN [@[id] EXCEPT !.state = start_state(@)] ELSE @[id]]])

\* stop_instances_any_lifecycle(client, instance_lifecycles, force):
\* [w, results], results the list of the service's responses.
stop_instances_any_lifecycle(w, ids, force) ==
    LET keys == Range(lifecycle_keys(w.ec2, ids))
        normal == of_lifecycle(w.ec2, ids, "normal")
        responded(acc, r) == [w |-> r.w, results |-> Append(acc.results, r.response)]
        spot == of_lifecycle(w.ec2, ids, "spot")
        persistent == SelectSeq(spot, LAMBDA id :
                          w.ec2.instances[id].spot_type = "persistent")
        one_time == SelectSeq(spot, LAMBDA id :
                          w.ec2.instances[id].spot_type = "one-time")
        n(acc) == IF "normal" \in keys
                  THEN responded(acc, api_stop_instances(acc.w, normal, force))
                  ELSE acc
        d(acc) == IF "spot" \in keys
                  THEN [acc EXCEPT !.w =
                           Logged(Logged(@, "describe_instances", "", spot),
                                  "describe_spot_instance_requests", "", spot)]
                  ELSE acc
        ps(acc) == IF "spot" \in keys /\ persistent # <<>>
                   THEN responded(acc, api_stop_instances(acc.w, persistent, force))
                   ELSE acc
        ot(acc) == IF "spot" \in keys /\ one_time # <<>>
                   THEN responded(acc, api_terminate_instances(
                            api_cancel_spot_instance_requests(acc.w, one_time),
                            one_time))
                   ELSE acc
        scheduled(acc) == IF "scheduled" \in keys
                          THEN [w |-> Failed(acc.w, "Scheduled instances not supported"),
                                results |-> <<>>]
                          ELSE acc
    IN scheduled(ot(ps(d(n([w |-> w, results |-> <<>>])))))

\* One record of the Instances list of the state document.
InstanceRecord(id, before, after) ==
    [InstanceId |-> id, Before |-> [State |-> before], After |-> [State |-> after]]

RECURSIVE Flatten(_)
Flatten(qs) == IF qs = <<>> THEN <<>> ELSE Head(qs) \o Flatten(Tail(qs))

\* stop_instances(client, az=, dry_run=, filters=, force=) as called by
\* instance_failure, and the translation of its response into records:
\* [w, results].
instance_failure(w, az, dry_run, filters, force) ==
    LET fs2 == IF az # None THEN Append(filters, az_filter(az)) ELSE filters
        l == list_instances_by_lifecycle(w, fs2)
        keys == lifecycle_keys(w.ec2, l.ids)
    IN IF l.ids = <<>>
       THEN [w |-> Failed(l.w, "No instances in availability zone"), results |-> <<>>]
       ELSE IF dry_run
       THEN [w |-> l.w,
             results |-> Flatten([k \in DOMAIN keys |->
                 IF keys[k] \in {"normal", "spot"}
                 THEN LET ids == of_lifecycle(w.ec2, l.ids, keys[k])
                      IN [j \in DOMAIN ids |-> InstanceRecord(ids[j], "", "")]
                 ELSE <<>>])]
       ELSE LET records(r) ==
                    [w |-> r.w,
                     results |-> Flatten([k \in DOMAIN r.results |->
                         [j \in DOMAIN r.results[k].items |->
                             InstanceRecord(r.results[k].items[j].InstanceId,
                                            r.results[k].items[j].PreviousState,
                                            r.results[k].items[j].CurrentState)]])]
            IN records(stop_instances_any_lifecycle(l.w, l.ids, force))

\* instance_state(client, state, [id])
instance_state(e, state, id) == e.instances[id].state = state

\* start_instances(client, instance_ids=ids): one start call per lifecycle.
RECURSIVE start_instances_any_lifecycle(_, _, _)
start_instances_any_lifecycle(w, ids, keys) ==
    IF keys = <<>> THEN w
    ELSE start_instances_any_lifecycle(
             api_start_instances(w, of_lifecycle(w.ec2, ids, Head(keys))),
             ids, Tail(keys))

start_instances(w, ids) ==
    LET w1 == Logged(w, "describe_instances", "", ids)
    IN start_instances_any_lifecycle(w1, ids, lifecycle_keys(w.ec2, ids))

(***************************************************************************)
(* azchaosaws/ec2/actions.py: fail_az and recover_az.                      *)
(***************************************************************************)
FailureTypes == {"network", "instance"}

instance_state_names == {"pending", "running"}

\* A variant of Finished in which a state file that could not be removed
\* ends the rollback with the OSError.
Finished_removal_raises(path, doc, w, f, f_done) ==
    IF w.err # "" THEN Raised(w.err, path, w, f)
    ELSE IF path \in DOMAIN f /\ f[path].pinned /\ f_done = f
    THEN Raised("OSError", path, w, f)
    ELSE Returned(path, doc, w, f_done)

\* A variant of Finished in which a failed rollback has removed its file.
Finished_removed_on_error(path, doc, w, f, f_done) ==
    IF w.err # "" THEN Raised(w.err, path, w, IF isfile(f_done, path) THEN f ELSE f_done)
    ELSE Returned(path, doc, w, f_done)

\* A variant of Finished in which the state file is touched before the
\* calls are made, so that an exception leaves the changed file behind.
Finished_written_early(path, doc, w, f, f_done) ==
    IF w.err # "" THEN Raised(w.err, path, w, f_done)
    ELSE Returned(path, doc, w, f_done)

\* The end of an invocation that got as far as its state file: an exception
\* raised on the way leaves the file as it was.
Finished(path, doc, w, f, f_done) ==
    IF w.err # "" THEN Raised(w.err, path, w, f)
    ELSE Returned(path, doc, w, f_done)

\* VpcId of the subnets found, without duplicates.
vpcs_of(subnets) == {VpcOf[sn] : sn \in Range(subnets)}

\* ec2.fail_az(az, dry_run, failure_type, filters, state_path); vpc_ids is
\* the order list(set(...)) gives the VPCs of the subnets found.
ec2_fail_az(w, f, az, dry_run, failure_type, filters, state_path, vpc_ids) ==
    LET v == validate_fail_az_path(TRUE, state_path, "ec2", f)
        fl == ec2_filters(az, filters)
        w1 == Logged(w, "describe_subnets", "", fl)
        subnets == ec2_describe_subnets(w.ec2, fl)
        fi == IF ~\E i \in DOMAIN fl : is_state_filter(fl[i])
              THEN Append(fl, Filter(<<"instance-state-name">>, instance_state_names))
              ELSE fl
        state(sns, ins) == [AvailabilityZone |-> az, DryRun |-> dry_run,
                            Subnets |-> sns, Instances |-> ins]
        dumped(w2, sns, ins) == Finished(v.path, state(sns, ins), w2, f,
                                         write_state(f, state(sns, ins), v.path))
        network(n) == dumped(n.w, n.results, <<>>)
        instance(i) == dumped(i.w, <<>>, i.results)
    IN IF az = None /\ filters = <<>>
       THEN Raised("no az and no filters", state_path, w, f)
       ELSE IF az = None /\ ~\E k \in DOMAIN filters : is_az_filter(filters[k])
       THEN Raised("no az in filters", state_path, w, f)
       ELSE IF ~v.ok THEN Raised(v.error, v.path, w, f)
       ELSE IF failure_type = "network"
       THEN IF subnets = <<>> THEN Raised("No subnets found", v.path, w1, f)
            ELSE network(network_failure(w1, vpc_ids, subnets, dry_run, <<>>))
       ELSE IF failure_type = "instance"
       THEN instance(instance_failure(w, az, dry_run, fi, TRUE))
       ELSE dumped(w, <<>>, <<>>)

\* A rollback that leaves every subnet on its blackhole ACL.
rollback_subnets_skipped(w, target_subnets) == w

\* recover_az lines 254-266: the recorded subnets go back to their ACLs.
RECURSIVE rollback_subnets(_, _)
rollback_subnets(w, target_subnets) ==
    IF target_subnets = <<>> THEN w
    ELSE LET subnet == Head(target_subnets)
         IN rollback_subnets(
                replace_network_acl_association(
                    w, subnet.Before.NetworkAclId,
                    subnet.After.NetworkAclAssociationId).w,
                Tail(target_subnets))

\* recover_az lines 277-278
RECURSIVE delete_blackhole_acls(_, _)
delete_blackhole_acls(w, blackhole_acl_ids) ==
    IF blackhole_acl_ids = <<>> THEN w
    ELSE delete_blackhole_acls(delete_network_acl(w, Head(blackhole_acl_ids)),
                               Tail(blackhole_acl_ids))

\* set([s["After"]["NetworkAclId"] for s in target_subnets])
recorded_blackhole_acls(target_subnets) ==
    {target_subnets[k].After.NetworkAclId : k \in DOMAIN target_subnets}

\* recover_az lines 289-299: the describe calls that sort the instances.
RECURSIVE check_instances(_, _)
check_instances(w, tids) ==
    IF tids = <<>> THEN w
    ELSE LET w1 == Logged(w, "describe_instances", "", <<Head(tids)>>)
             w2 == IF ~instance_state(w.ec2, "stopped", Head(tids))
                   THEN Logged(w1, "describe_instances", "", <<Head(tids)>>)
                   ELSE w1
         IN check_instances(w2, Tail(tids))

\* A rollback that starts every target instance without looking at its state.
rollback_instances_unchecked(w, target_instances) ==
    LET tids == [k \in DOMAIN target_instances |-> target_instances[k].InstanceId]
    IN IF target_instances = <<>> THEN w
       ELSE start_instances(check_instances(w, tids), tids)

\* recover_az lines 283-329
rollback_instances(w, target_instances) ==
    LET tids == [k \in DOMAIN target_instances |-> target_instances[k].InstanceId]
        stopped == SelectSeq(tids, LAMBDA id : instance_state(w.ec2, "stopped", id))
        stopping == SelectSeq(tids, LAMBDA id : instance_state(w.ec2, "stopping", id))
        w1 == check_instances(w, tids)
    IN IF target_instances = <<>> THEN w
       ELSE IF stopping # <<>> THEN Failed(w1, "instance state is stopping")
       ELSE IF stopped = <<>> THEN Failed(w1, "instance state is not stopped")
       ELSE start_instances(w1, stopped)

\* ec2.recover_az(state_path); blackhole_acl_ids is the order list(set(...))
\* gives the recorded blackhole ACLs.
ec2_recover_az(w, f, state_path, blackhole_acl_ids) ==
    LET v == validate_fail_az_path(FALSE, state_path, "ec2", f)
        fail_az_state == read_state(f, v.path)
        target_subnets == fail_az_state.Subnets
        target_instances ==
            SelectSeq(fail_az_state.Instances, LAMBDA instance :
                /\ instance.Before.State \in {"pending", "running"}
                /\ instance.After.State = "stopping")
        w1 == IF target_subnets # <<>>
              THEN delete_blackhole_acls(rollback_subnets(w, target_subnets),
                                         blackhole_acl_ids)
              ELSE w
        w2 == IF w1.err = "" THEN rollback_instances(w1, target_instances) ELSE w1
    IN IF ~v.ok THEN Raised(v.error, v.path, w, f)
       ELSE IF fail_az_state.DryRun THEN Raised("dry run state", v.path, w, f)
       ELSE Finished(v.path, fail_az_state, w2, f, remove_state(f, v.path))

(***************************************************************************)
(* azchaosaws/elb/actions.py: classic load balancers.                      *)
(*                                                                         *)
(* A load balancer of a non-default VPC is attached to subnets and serves  *)
(* the AZs of those subnets; one of the default VPC has AZs enabled.       *)
(***************************************************************************)
LBOrder == <<"lb1", "lb2">>

LBNames == Range(LBOrder)

DefaultVpc == "vpc-d"

\* The AZs of a list of subnets, without duplicates, in the list's order.
zones_of(subnets) ==
    LET firsts == SelectSeq(Indices(subnets), LAMBDA i :
                      \A j \in 1..(i - 1) : SubnetAZ[subnets[j]] # SubnetAZ[subnets[i]])
    IN [k \in DOMAIN firsts |-> SubnetAZ[subnets[firsts[k]]]]

\* The elements of `more` that `q` lacks, appended to q.
Extended(q, more) ==
    q \o SelectSeq(more, LAMBDA x : x \notin Range(q))

\* get_lbs_by_az(client, az)
elb_get_lbs_by_az(lbs, az) ==
    {lb \in DOMAIN lbs : az \in Range(lbs[lb].AvailabilityZones)}

\* filter_lbs_by_tags(client, lb_names, tags): all(t in td["Tags"] for t in tags)
elb_filter_lbs_by_tags(lbs, lb_names, tags) ==
    {lb \in lb_names : \A i \in DOMAIN tags : tags[i] \in lbs[lb].Tags}

\* filter_lbs_in_default_vpc(elb_client, ec2_client, lb_names), in the order
\* of the describe_load_balancers response.
filter_lbs_in_default_vpc(lbs, lb_names) ==
    SelectSeq(LBOrder, LAMBDA lb : lb \in lb_names /\ lbs[lb].VPCId = DefaultVpc)

\* A variant of get_lb_subnets_by_az that takes every subnet of the load
\* balancer for a subnet of the AZ.
elb_get_lb_subnets_by_az_any(lbs, az, lb_name) ==
    [LoadBalancerName |-> lb_name,
     OriginalSubnetIds |-> lbs[lb_name].Subnets,
     TargetAZSubnetIds |-> lbs[lb_name].Subnets]

\* get_lb_subnets_by_az(client, ec2_client, az, lb_name)
elb_get_lb_subnets_by_az(lbs, az, lb_name) ==
    [LoadBalancerName |-> lb_name,
     OriginalSubnetIds |-> lbs[lb_name].Subnets,
     TargetAZSubnetIds |-> SelectSeq(lbs[lb_name].Subnets,
                                     LAMBDA sn : SubnetAZ[sn] = az)]

\* elb_client.detach_load_balancer_from_subnets: [w, Subnets], the subnets
\* that remain attached.
detach_load_balancer_from_subnets(w, lb, subnets) ==
    LET w1 == Logged(w, "detach_load_balancer_from_subnets", lb, subnets)
        remaining == SelectSeq(w.elbs[lb].Subnets, LAMBDA sn : sn \notin Range(subnets))
    IN [w |-> Applied(w1, [w1 EXCEPT !.elbs[lb].Subnets = remaining,
                                     !.elbs[lb].AvailabilityZones = zones_of(remaining)]),
        Subnets |-> remaining]

\* elb_client.disable_availability_zones_for_load_balancer: [w,
\* AvailabilityZones], the AZs that remain enabled.  At least one AZ must
\* stay registered with a load balancer (docstring of fail_az).
disable_availability_zones_for_load_balancer(w, lb, azs) ==
    LET w1 == Logged(w, "disable_availability_zones_for_load_balancer", lb, azs)
        remaining == SelectSeq(w.elbs[lb].AvailabilityZones,
                               LAMBDA z : z \notin Range(azs))
    IN IF remaining = <<>>
       THEN [w |-> Failed(w1, "ClientError disable_availability_zones_for_load_balancer"),
             AvailabilityZones |-> <<>>]
       ELSE [w |-> Applied(w1, [w1 EXCEPT !.elbs[lb].AvailabilityZones = remaining]),
             AvailabilityZones |-> remaining]

\* elb_client.attach_load_balancer_to_subnets
attach_load_balancer_to_subnets(w, lb, subnets) ==
    LET w1 == Logged(w, "attach_load_balancer_to_subnets", lb, subnets)
        attached == Extended(w.elbs[lb].Subnets, subnets)
    IN Applied(w1, [w1 EXCEPT !.elbs[lb].Subnets = attached,
                              !.elbs[lb].AvailabilityZones = zones_of(attached)])

\* elb_client.enable_availability_zones_for_load_balancer
enable_availability_zones_for_load_balancer(w, lb, azs) ==
    LET w1 == Logged(w, "enable_availability_zones_for_load_balancer", lb, azs)
    IN Applied(w1, [w1 EXCEPT !.elbs[lb].AvailabilityZones = Extended(@, azs)])

\* list(set(a).difference(set(b))) for lists without duplicates, in a's order.
difference(a, b) == SelectSeq(a, LAMBDA x : x \notin Range(b))

\* fail_az lines 121-157: the load balancers outside the default VPC.
\* acc = [w, lbs_state].
RECURSIVE elb_detach_loop(_, _, _, _)
elb_detach_loop(acc, az, dry_run, non_default_vpc_lbs) ==
    IF non_default_vpc_lbs = <<>> THEN acc
    ELSE LET lb == Head(non_default_vpc_lbs)
             w1 == Logged(Logged(acc.w, "describe_load_balancers", lb, <<>>),
                          "describe_subnets", lb, az)
             lb_block == elb_get_lb_subnets_by_az(acc.w.elbs, az, lb)
             d == IF ~dry_run
                  THEN detach_load_balancer_from_subnets(
                           w1, lb, lb_block.TargetAZSubnetIds)
                  ELSE [w |-> w1,
                        Subnets |-> difference(lb_block.OriginalSubnetIds,
                                               lb_block.TargetAZSubnetIds)]
             next == IF lb_block.TargetAZSubnetIds # <<>>
                     THEN [w |-> d.w,
                           lbs_state |-> Append(acc.lbs_state,
                               [LoadBalancerName |-> lb,
                                Before |-> [SubnetIds |-> lb_block.OriginalSubnetIds],
                                After |-> [SubnetIds |-> d.Subnets]])]
                     ELSE [w |-> w1, lbs_state |-> acc.lbs_state]
         IN elb_detach_loop(next, az, dry_run, Tail(non_default_vpc_lbs))

\* fail_az lines 160-187: the load balancers of the default VPC, as the
\* describe_load_balancers call before the loop returned them.
RECURSIVE elb_disable_loop(_, _, _, _, _)
elb_disable_loop(acc, az, dry_run, default_vpc_lbs, described) ==
    IF default_vpc_lbs = <<>> THEN acc
    ELSE LET lb == Head(default_vpc_lbs)
             original_azs == described[lb].AvailabilityZones
             d == IF ~dry_run
                  THEN disable_availability_zones_for_load_balancer(acc.w, lb, <<az>>)
                  ELSE [w |-> acc.w,
                        AvailabilityZones |-> difference(original_azs, <<az>>)]
         IN elb_disable_loop(
                [w |-> d.w,
                 lbs_state |-> Append(acc.lbs_state,
                     [LoadBalancerName |-> lb,
                      Before |-> [AvailabilityZones |-> original_azs],
                      After |-> [AvailabilityZones |-> d.AvailabilityZones]])],
                az, dry_run, Tail(default_vpc_lbs), described)

\* The load balancers fail_az acts on.
elb_tagged_lb_names(lbs, az, lb_names, tags) ==
    IF lb_names # {} THEN elb_filter_lbs_by_tags(lbs, lb_names, tags)
    ELSE elb_filter_lbs_by_tags(lbs, elb_get_lbs_by_az(lbs, az), tags)

elb_non_default_vpc_lbs(lbs, az, lb_names, tags) ==
    {lb \in elb_tagged_lb_names(lbs, az, lb_names, tags) : lbs[lb].VPCId # DefaultVpc}

\* elb.fail_az(az, dry_run, lb_names, tags, state_path); `order` is the
\* order list(set(...)) gives the load balancers outside the default VPC.
elb_fail_az(w, f, az, dry_run, lb_names, tags, state_path, order) ==
    LET v == validate_fail_az_path(TRUE, state_path, "elb", f)
        w1 == Logged(w, "describe_load_balancers", "*", <<>>)
        target_az_lb_names == elb_get_lbs_by_az(w.elbs, az)
        tagged_lb_names == elb_tagged_lb_names(w.elbs, az, lb_names, tags)
        w2 == Logged(w1, "describe_tags", "*", tags)
        default_vpc_lbs == filter_lbs_in_default_vpc(w.elbs, tagged_lb_names)
        w3 == Logged(Logged(w2, "describe_vpcs", "*", <<>>),
                     "describe_load_balancers", "*", <<>>)
        nd == elb_detach_loop([w |-> w3, lbs_state |-> <<>>], az, dry_run, order)
        w4 == IF default_vpc_lbs # <<>>
              THEN Logged(nd.w, "describe_load_balancers", "*", default_vpc_lbs)
              ELSE nd.w
        r == elb_disable_loop([w |-> w4, lbs_state |-> nd.lbs_state], az, dry_run,
                              default_vpc_lbs, nd.w.elbs)
        fail_az_state == [AvailabilityZone |-> az, DryRun |-> dry_run,
                          LoadBalancers |-> r.lbs_state]
    IN IF az = None THEN Raised("no az", state_path, w, f)
       ELSE IF ~v.ok THEN Raised(v.error, v.path, w, f)
       ELSE IF target_az_lb_names = {}
       THEN Raised("No LBs in the target AZ found", v.path, w1, f)
       ELSE IF tagged_lb_names = {}
       THEN Raised("No LBs with the provided tags and the target AZ found",
                   v.path, w2, f)
       ELSE Finished(v.path, fail_az_state, r.w, f,
                     write_state(f, fail_az_state, v.path))

\* elb.recover_az lines 221-243: the rollback of one recorded load balancer;
\* elb["After"].get(key, []) is false for a missing key and for an empty list.
elb_recover_one(w, elb) ==
    LET name == elb.LoadBalancerName
        w1 == IF "SubnetIds" \in DOMAIN elb.After /\ elb.After.SubnetIds # <<>>
              THEN attach_load_balancer_to_subnets(w, name, elb.Before.SubnetIds)
              ELSE w
    IN IF "AvailabilityZones" \in DOMAIN elb.After /\ elb.After.AvailabilityZones # <<>>
       THEN enable_availability_zones_for_load_balancer(
                w1, name, elb.Before.AvailabilityZones)
       ELSE w1

RECURSIVE elb_recover_loop(_, _)
elb_recover_loop(w, records) ==
    IF records = <<>> THEN w
    ELSE elb_recover_loop(elb_recover_one(w, Head(records)), Tail(records))

\* elb.recover_az(state_path)
elb_recover_az(w, f, state_path) ==
    LET v == validate_fail_az_path(FALSE, state_path, "elb", f)
        fail_az_state == read_state(f, v.path)
    IN IF ~v.ok THEN Raised(v.error, v.path, w, f)
       ELSE IF fail_az_state.DryRun THEN Raised("dry run state", v.path, w, f)
       ELSE Finished(v.path, fail_az_state,
                     elb_recover_loop(w, fail_az_state.LoadBalancers), f,
                     remove_state(f, v.path))

(***************************************************************************)
(* azchaosaws/elbv2/actions.py: application and network load balancers.    *)
(*                                                                         *)
(* A load balancer has one subnet per AZ; its AvailabilityZones list has   *)
(* one entry (ZoneName, SubnetId) per subnet.                              *)
(***************************************************************************)
LBv2Order == <<"alb1", "alb2">>

LBv2Names == Range(LBv2Order)

\* sorted(list(S)) for a set of subnet ids.
sorted(S) == SelectSeq(SubnetOrder, LAMBDA sn : sn \in S)

\* get_lbs_by_az(client, az)
elbv2_get_lbs_by_az(lbs, az) ==
    {lb \in DOMAIN lbs : \E sn \in lbs[lb].Subnets : SubnetAZ[sn] = az}

\* filter_lbs_by_tags(client, resource_arns, tags)
elbv2_filter_lbs_by_tags(lbs, resource_arns, tags) ==
    {lb \in resource_arns : \A i \in DOMAIN tags : tags[i] \in lbs[lb].Tags}

\* A variant of get_lb_subnets_by_az without the check of the number
\* of AZs.
elbv2_get_lb_subnets_by_az_unchecked(lbs, az, lb) ==
    [ok |-> TRUE,
     LoadBalancerName |-> lb, Type |-> lbs[lb].Type,
     OriginalSubnetIds |-> lbs[lb].Subnets,
     TargetAZSubnetIds |-> {sn \in lbs[lb].Subnets : SubnetAZ[sn] = az}]

\* get_lb_subnets_by_az(client, az, load_balancer_arn): the block, or the
\* error raised for a load balancer of the AZ with fewer than 3 AZs.
elbv2_get_lb_subnets_by_az(lbs, az, lb) ==
    LET target == {sn \in lbs[lb].Subnets : SubnetAZ[sn] = az}
    IN [ok |-> ~(target # {} /\ Cardinality(lbs[lb].Subnets) < 3),
        LoadBalancerName |-> lb, Type |-> lbs[lb].Type,
        OriginalSubnetIds |-> lbs[lb].Subnets,
        TargetAZSubnetIds |-> target]

\* A variant of set_subnets that ignores dry_run.
set_subnets_always(w, lb, subnet_ids, dry_run) ==
    LET w1 == Logged(w, "describe_load_balancers", lb, <<>>)
        w2 == Logged(w1, "set_subnets", lb, subnet_ids)
    IN IF w.albs[lb].State # "active"
       THEN Failed(w1, "Invalid state for load balancer")
       ELSE IF w.albs[lb].Type = "network"
       THEN Failed(w1, "Cannot set subnets of network load balancers")
       ELSE Applied(w2, [w2 EXCEPT !.albs[lb].Subnets = Range(subnet_ids)])

\* set_subnets(elbv2_client, [name], subnet_ids, dry_run)
set_subnets(w, lb, subnet_ids, dry_run) ==
    LET w1 == Logged(w, "describe_load_balancers", lb, <<>>)
        w2 == Logged(w1, "set_subnets", lb, subnet_ids)
    IN IF w.albs[lb].State # "active"
       THEN Failed(w1, "Invalid state for load balancer")
       ELSE IF w.albs[lb].Type = "network"
       THEN Failed(w1, "Cannot set subnets of network load balancers")
       ELSE IF ~dry_run
       THEN Applied(w2, [w2 EXCEPT !.albs[lb].Subnets = Range(subnet_ids)])
       ELSE w1

\* fail_az lines 99-147: the loop over the selected load balancers.
\* acc = [w, lbs_state].
RECURSIVE elbv2_fail_loop(_, _, _, _)
elbv2_fail_loop(acc, az, dry_run, lb_arns) ==
    IF lb_arns = <<>> \/ acc.w.err # "" THEN acc
    ELSE LET lb == Head(lb_arns)
             w1 == Logged(acc.w, "describe_load_balancers", lb, <<>>)
             lb_block == elbv2_get_lb_subnets_by_az(acc.w.albs, az, lb)
             subnets == sorted(lb_block.OriginalSubnetIds \ lb_block.TargetAZSubnetIds)
             next ==
                 IF ~lb_block.ok
                 THEN [w |-> Failed(w1, "LB requires at least 2 AZs to operate"),
                       lbs_state |-> acc.lbs_state]
                 ELSE IF lb_block.Type # "application" \/ lb_block.TargetAZSubnetIds = {}
                 THEN [w |-> w1, lbs_state |-> acc.lbs_state]
                 ELSE [w |-> set_subnets(w1, lb, subnets, dry_run),
                       lbs_state |-> Append(acc.lbs_state,
                           [LoadBalancerName |-> lb, Type |-> lb_block.Type,
                            Before |-> [SubnetIds |-> sorted(lb_block.OriginalSubnetIds)],
                            After |-> [SubnetIds |-> subnets]])]
         IN elbv2_fail_loop(next, az, dry_run, Tail(lb_arns))

\* The load balancers fail_az selects.
elbv2_targets(lbs, az, tags) ==
    elbv2_filter_lbs_by_tags(lbs, elbv2_get_lbs_by_az(lbs, az), tags)

\* elbv2.fail_az(az, dry_run, tags, state_path); lb_arns is the order
\* list(set(...)) gives the selected load balancers.
elbv2_fail_az(w, f, az, dry_run, tags, state_path, lb_arns) ==
    LET v == validate_fail_az_path(TRUE, state_path, "elbv2", f)
        w1 == Logged(w, "describe_load_balancers", "*", <<>>)
        w2 == Logged(w1, "describe_tags", "*", tags)
        r == elbv2_fail_loop([w |-> w2, lbs_state |-> <<>>], az, dry_run, lb_arns)
        fail_az_state == [LoadBalancers |-> r.lbs_state, AvailabilityZone |-> az,
                          DryRun |-> dry_run]
    IN IF az = None THEN Raised("no az", state_path, w, f)
       ELSE IF ~v.ok THEN Raised(v.error, v.path, w, f)
       ELSE IF elbv2_get_lbs_by_az(w.albs, az) = {}
       THEN Raised("No LBs in the target AZ found", v.path, w1, f)
       ELSE IF elbv2_targets(w.albs, az, tags) = {}
       THEN Raised("No LBs with the provided tags and the target AZ found",
                   v.path, w2, f)
       ELSE Finished(v.path, fail_az_state, r.w, f,
                     write_state(f, fail_az_state, v.path))

\* recover_az lines 185-205
RECURSIVE elbv2_recover_loop(_, _)
elbv2_recover_loop(w, records) ==
    IF records = <<>> THEN w
    ELSE LET elb == Head(records)
             w1 == IF elb.After.SubnetIds # <<>> /\ elb.Type = "application"
                   THEN set_subnets(w, elb.LoadBalancerName, elb.Before.SubnetIds, FALSE)
                   ELSE w
         IN elbv2_recover_loop(w1, Tail(records))

\* A variant of elbv2.recover_az that takes a missing state file for an
\* empty document.
elbv2_recover_az_unchecked(w, f, state_path) ==
    LET v == validate_fail_az_path(FALSE, state_path, "elbv2", f)
        fail_az_state == read_state(f, v.path)
    IN IF v.error = "no state file" THEN Returned(v.path, <<>>, w, f)
       ELSE IF ~v.ok THEN Raised(v.error, v.path, w, f)
       ELSE IF fail_az_state.DryRun THEN Raised("dry run state", v.path, w, f)
       ELSE Finished(v.path, fail_az_state,
                     elbv2_recover_loop(w, fail_az_state.LoadBalancers), f,
                     remove_state(f, v.path))

\* elbv2.recover_az(state_path)
elbv2_recover_az(w, f, state_path) ==
    LET v == validate_fail_az_path(FALSE, state_path, "elbv2", f)
        fail_az_state == read_state(f, v.path)
    IN IF ~v.ok THEN Raised(v.error, v.path, w, f)
       ELSE IF fail_az_state.DryRun THEN Raised("dry run state", v.path, w, f)
       ELSE Finished(v.path, fail_az_state,
                     elbv2_recover_loop(w, fail_az_state.LoadBalancers), f,
                     remove_state(f, v.path))

(***************************************************************************)
(* azchaosaws/rds/actions.py: DB instances and clusters.  fail_az keeps    *)
(* no state file and has no recover_az.                                    *)
(***************************************************************************)
DBOrder == <<"db1", "m1", "m2">>

DBIds == Range(DBOrder)

ClusterOrder == <<"c1">>

\* The DB instances fail_az selects (lines 80-91), in describe order.
rds_db_instances(r, az, tags) ==
    SelectSeq(DBOrder, LAMBDA id :
        /\ \A i \in DOMAIN tags : tags[i] \in r.dbs[id].TagList
        /\ r.dbs[id].AvailabilityZone = az
        /\ r.dbs[id].MultiAZ)

\* Lines 102-117: the loop over the members of one cluster, left by `break`
\* at a writer outside the target AZ.  st = [writer_az, reader_azs, w].
RECURSIVE rds_members_loop(_, _, _, _)
rds_members_loop(st, r, az, members) ==
    IF members = <<>> THEN st
    ELSE LET member == Head(members)
             member_az == r.dbs[member.DBInstanceIdentifier].AvailabilityZone
             w1 == Logged(st.w, "describe_db_instances",
                          member.DBInstanceIdentifier, <<>>)
         IN IF member.IsClusterWriter
            THEN IF member_az # az
                 THEN [st EXCEPT !.writer_az = member_az, !.w = w1]
                 ELSE rds_members_loop(
                          [st EXCEPT !.writer_az = member_az, !.w = w1],
                          r, az, Tail(members))
            ELSE rds_members_loop(
                     [st EXCEPT !.reader_azs = Append(@, member_az), !.w = w1],
                     r, az, Tail(members))

\* Lines 97-125: whether fail_az selects the cluster.
rds_cluster_selected(r, az, tags, c) ==
    LET st == rds_members_loop([writer_az |-> "", reader_azs |-> <<>>, w |-> [calls |-> <<>>, err |-> ""]],
                               r, az, r.clusters[c].DBClusterMembers)
    IN /\ \A i \in DOMAIN tags : tags[i] \in r.clusters[c].TagList
       /\ r.clusters[c].MultiAZ
       /\ ~\E k \in DOMAIN st.reader_azs : st.writer_az = st.reader_azs[k]

rds_db_clusters(r, az, tags) ==
    SelectSeq(ClusterOrder, LAMBDA c : rds_cluster_selected(r, az, tags, c))

\* client.reboot_db_instance(DBInstanceIdentifier, ForceFailover=True): the
\* standby of an available Multi-AZ instance takes over; any other instance
\* makes the call fail.
api_reboot_db_instance(w, id) ==
    LET w1 == Logged(w, "reboot_db_instance", id, TRUE)
        db == w.rds.dbs[id]
    IN IF db.MultiAZ /\ db.DBInstanceStatus = "available"
       THEN [ok |-> TRUE,
             w |-> [w1 EXCEPT !.rds.dbs[id].AvailabilityZone = db.SecondaryAvailabilityZone,
                              !.rds.dbs[id].SecondaryAvailabilityZone = db.AvailabilityZone]]
       ELSE [ok |-> FALSE, w |-> w1]

\* client.failover_db_cluster(DBClusterIdentifier): a reader of an available
\* cluster becomes the writer; a cluster without reader makes the call fail.
api_failover_db_cluster(w, c) ==
    LET w1 == Logged(w, "failover_db_cluster", c, <<>>)
        members == w.rds.clusters[c].DBClusterMembers
        readers == {k \in DOMAIN members : ~members[k].IsClusterWriter}
        promoted == CHOOSE k \in readers : \A j \in readers : k <= j
    IN IF readers # {} /\ w.rds.clusters[c].Status = "available"
       THEN [ok |-> TRUE,
             w |-> [w1 EXCEPT !.rds.clusters[c].DBClusterMembers =
                        [k \in DOMAIN members |->
                            [members[k] EXCEPT !.IsClusterWriter = (k = promoted)]]]]
       ELSE [ok |-> FALSE, w |-> w1]

\* reboot_db_instance / failover_db_cluster run by the executor, one task
\* after another in the order `tasks`; acc = [w, success, failed] with the
\* instance lists first and the cluster lists second.
RECURSIVE rds_run(_, _)
rds_run(acc, tasks) ==
    IF tasks = <<>> THEN acc
    ELSE LET t == Head(tasks)
             r == IF t.kind = "instance" THEN api_reboot_db_instance(acc.w, t.id)
                  ELSE api_failover_db_cluster(acc.w, t.id)
             k == IF t.kind = "instance" THEN 1 ELSE 2
         IN rds_run(IF r.ok
                    THEN [acc EXCEPT !.w = r.w, !.success[k] = Append(@, t.id)]
                    ELSE [acc EXCEPT !.w = r.w, !.failed[k] = Append(@, t.id)],
                    Tail(tasks))

Task(kind, id) == [kind |-> kind, id |-> id]

\* The tasks fail_az submits to the executor.
rds_tasks(r, az, tags) ==
    {Task("instance", id) : id \in Range(rds_db_instances(r, az, tags))}
    \cup {Task("cluster", c) : c \in Range(rds_db_clusters(r, az, tags))}

\* The describe calls of the discovery, lines 77-125.
RECURSIVE rds_discovery_calls(_, _, _, _)
rds_discovery_calls(w, az, tags, clusters) ==
    IF clusters = <<>> THEN w
    ELSE LET c == w.rds.clusters[Head(clusters)]
             st == rds_members_loop([writer_az |-> "", reader_azs |-> <<>>, w |-> w],
                                    w.rds, az, c.DBClusterMembers)
         IN rds_discovery_calls(
                IF (\A i \in DOMAIN tags : tags[i] \in c.TagList) /\ c.MultiAZ
                THEN st.w ELSE w,
                az, tags, Tail(clusters))

\* A result list after wait(futures): those of `ids` that the workers
\* appended to it, in the order `appends` of the appends.
appended(ids, appends) ==
    LET done == SelectSeq(appends, LAMBDA t : t.id \in Range(ids))
    IN [k \in DOMAIN done |-> done[k].id]

\* rds.fail_az(az, dry_run, tags); `tasks` is the order in which the
\* executor's threads get to their calls, `appends` the order in which
\* they get to the append that follows the call.
rds_fail_az(w, f, az, dry_run, tags, tasks, appends) ==
    LET w1 == Logged(w, "describe_db_instances", "*", <<>>)
        w2 == rds_discovery_calls(Logged(w1, "describe_db_clusters", "*", <<>>),
                                  az, tags, ClusterOrder)
        r == IF ~dry_run
             THEN rds_run([w |-> w2, success |-> <<<<>>, <<>>>>,
                           failed |-> <<<<>>, <<>>>>], tasks)
             ELSE [w |-> w2, success |-> <<<<>>, <<>>>>, failed |-> <<<<>>, <<>>>>]
        fail_az_state ==
            [AvailabilityZone |-> az, DryRun |-> dry_run,
             DBInstances |->
                [Success |-> [DBInstanceIdentifiers |-> appended(r.success[1], appends),
                              DBClusterIdentifiers |-> appended(r.success[2], appends)],
                 Failed |-> [DBInstanceIdentifiers |-> appended(r.failed[1], appends),
                             DBClusterIdentifiers |-> appended(r.failed[2], appends)]]]
    IN IF az = None THEN Raised("you must specify the az", <<>>, w, f)
       ELSE Finished(<<>>, fail_az_state, r.w, f, f)

(***************************************************************************)
(* azchaosaws/mq/actions.py: brokers.  fail_az keeps no state file and has *)
(* no recover_az.                                                          *)
(***************************************************************************)
BrokerOrder == <<"b1", "b2", "b3", "b4">>

BrokerIds == Range(BrokerOrder)

\* The number of brokers list_brokers returns per page.
PageSize == 2

\* The pages of the list_brokers paginator.
Pages(q) ==
    [k \in 1..((Len(q) + PageSize - 1) \div PageSize) |->
        SubSeq(q, (k - 1) * PageSize + 1,
               IF k * PageSize < Len(q) THEN k * PageSize ELSE Len(q))]

\* Lines 177-180: brokers = [bs for bs in p["BrokerSummaries"]] for each
\* page in turn, which keeps the last page.
listed_brokers(q) ==
    IF Pages(q) = <<>> THEN <<>> ELSE Pages(q)[Len(Pages(q))]

\* get_brokers_by_tags_and_az(mq_client, ec2_client, tags, az): lines 183-198.
get_brokers_by_tags_and_az(m, tags, az) ==
    SelectSeq(listed_brokers(BrokerOrder), LAMBDA b :
        /\ m[b].Tags # {}
        /\ \A i \in DOMAIN tags : tags[i] \in m[b].Tags
        /\ \E sn \in m[b].SubnetIds : SubnetAZ[sn] = az)

\* fail_az lines 80-87
activemq_brokers(m, tags, az) ==
    SelectSeq(get_brokers_by_tags_and_az(m, tags, az), LAMBDA b :
        /\ m[b].EngineType = "ActiveMQ"
        /\ m[b].DeploymentMode = "ACTIVE_STANDBY_MULTI_AZ")

\* client.reboot_broker(BrokerId): only a running broker can be rebooted.
api_reboot_broker(w, b) ==
    LET w1 == Logged(w, "reboot_broker", b, <<>>)
    IN IF w.mq[b].BrokerState = "RUNNING"
       THEN [ok |-> TRUE, w |-> [w1 EXCEPT !.mq[b].BrokerState = "REBOOT_IN_PROGRESS"]]
       ELSE [ok |-> FALSE, w |-> w1]

\* A variant of the executor's run that ends at the first call that fails.
RECURSIVE mq_run_abort(_, _)
mq_run_abort(acc, tasks) ==
    IF tasks = <<>> THEN acc
    ELSE LET r == api_reboot_broker(acc.w, Head(tasks))
         IN IF r.ok
            THEN mq_run_abort([acc EXCEPT !.w = r.w, !.success = Append(@, Head(tasks))],
                              Tail(tasks))
            ELSE [acc EXCEPT !.w = r.w, !.failed = Append(@, Head(tasks))]

\* reboot_broker run by the executor; acc = [w, success, failed].
RECURSIVE mq_run(_, _)
mq_run(acc, tasks) ==
    IF tasks = <<>> THEN acc
    ELSE LET r == api_reboot_broker(acc.w, Head(tasks))
         IN mq_run(IF r.ok
                   THEN [acc EXCEPT !.w = r.w, !.success = Append(@, Head(tasks))]
                   ELSE [acc EXCEPT !.w = r.w, !.failed = Append(@, Head(tasks))],
                   Tail(tasks))

\* The calls of get_brokers_by_tags_and_az.
RECURSIVE mq_discovery_calls(_, _, _, _)
mq_discovery_calls(w, tags, az, brokers) ==
    IF brokers = <<>> THEN w
    ELSE LET b == Head(brokers)
             w1 == Logged(w, "list_tags", b, <<>>)
             w2 == IF w.mq[b].Tags # {} /\ \A i \in DOMAIN tags : tags[i] \in w.mq[b].Tags
                   THEN Logged(Logged(w1, "describe_broker", b, <<>>),
                               "describe_subnets", b, az)
                   ELSE w1
         IN mq_discovery_calls(w2, tags, az, Tail(brokers))

\* mq.fail_az(az, dry_run, tags); `tasks` is the order in which the
\* executor's threads get to their calls, `appends` the order in which
\* they get to the append that follows the call.
mq_fail_az(w, f, az, dry_run, tags, tasks, appends) ==
    LET w1 == mq_discovery_calls(Logged(w, "list_brokers", "*", <<>>), tags, az,
                                 listed_brokers(BrokerOrder))
        r == IF ~dry_run
             THEN mq_run([w |-> w1, success |-> <<>>, failed |-> <<>>], tasks)
             ELSE [w |-> w1, success |-> <<>>, failed |-> <<>>]
        fail_az_state ==
            [AvailabilityZone |-> az, DryRun |-> dry_run,
             Brokers |->
                [Success |-> [BrokerIds |->
                    SelectSeq(appends, LAMBDA b : b \in Range(r.success))],
                 Failed |-> [BrokerIds |->
                    SelectSeq(appends, LAMBDA b : b \in Range(r.failed))]]]
    IN IF az = None THEN Raised("no az", <<>>, w, f)
       ELSE IF get_brokers_by_tags_and_az(w.mq, tags, az) = <<>>
       THEN Raised("No broker(s) found with matching tag(s) and az", <<>>, w1, f)
       ELSE IF activemq_brokers(w.mq, tags, az) = <<>>
       THEN Raised("No ActiveMQ broker(s) with the provided tags", <<>>, w1, f)
       ELSE Finished(<<>>, fail_az_state, r.w, f, f)

(***************************************************************************)
(* azchaosaws/eks/actions.py: clusters, their node groups and the ASGs,    *)
(* subnets and instances behind them.  The helpers it imports from         *)
(* azchaosaws.asg.actions are the ones modelled above.                     *)
(***************************************************************************)
ClusterNames == {"k1", "k2"}

VpcOrder == <<"vpc-1", "vpc-2">>

\* get_clusters_by_tags(tags, client), as the set of names fail_az makes of it.
get_clusters_by_tags(k, tags) ==
    {c \in DOMAIN k : \A i \in DOMAIN tags : tags[i] \in k[c].tags}

\* get_asgs_of_nodegroups_by_az(az, cluster_name, eks_client, asg_client):
\* the NodeGroups list, empty when no ASG of the cluster is in the AZ.
get_asgs_of_nodegroups_by_az(w, az, cluster_name) ==
    LET nodegroups == w.eks[cluster_name].nodegroups
        in_az == [k \in DOMAIN nodegroups |->
                     [NodeGroupName |-> nodegroups[k].name,
                      AutoScalingGroups |->
                          SelectSeq(nodegroups[k].asgs, LAMBDA g :
                              az \in AvailabilityZonesOf(w.asgs[g])),
                      subnets |-> nodegroups[k].subnets]]
    IN SelectSeq(in_az, LAMBDA ng : ng.AutoScalingGroups # <<>>)

\* The instances attached to the groups: asg["Instances"].
instances_of(e, groups) ==
    {id \in InstanceIds : e.instances[id].asg \in Range(groups)}

\* fail_az lines 185-206: the ASGs of one node group.
RECURSIVE eks_fail_asgs(_, _, _, _, _)
eks_fail_asgs(w, az, dry_run, groups, asgs_state) ==
    IF groups = <<>> \/ w.err # "" THEN [w |-> w, asgs_state |-> asgs_state]
    ELSE LET asg == Head(groups)
             w1 == Logged(w, "describe_auto_scaling_groups", asg, <<>>)
             rest(r) == eks_fail_asgs(r.w, az, dry_run, Tail(groups),
                                      Append(asgs_state, r.results))
         IN rest(IF asg_in_single_az(w.asgs, asg)
                 THEN modify_capacity(w1, asg, dry_run, 0, 0, 0)
                 ELSE eks_remove_az_subnets(w1, az, asg, dry_run))

\* fail_az lines 181-278: one node group.  [w, state]
eks_fail_nodegroup(w, c, ng, az, dry_run, failure_type) ==
    LET w1(a) == Logged(Logged(a.w, "describe_nodegroup", ng.NodeGroupName, <<>>),
                        "describe_subnets", ng.NodeGroupName, az)
        subnet_ids == SelectSeq(ng.subnets, LAMBDA sn : SubnetAZ[sn] = az)
        vpc_ids == SelectSeq(VpcOrder, LAMBDA vpc : vpc \in vpcs_of(subnet_ids))
        w2(a) == Logged(a.w, "describe_auto_scaling_groups", ng.NodeGroupName,
                        ng.AutoScalingGroups)
        filters(a) ==
            <<Filter(<<"instance-state-name">>, instance_state_names),
              Filter(<<"instance-id">>, instances_of(a.w.ec2, ng.AutoScalingGroups)),
              az_filter(az)>>
        nodegroup_state(a, w3, sns, ins) ==
            [w |-> w3,
             state |-> [NodeGroupName |-> ng.NodeGroupName,
                        AutoScalingGroups |-> a.asgs_state,
                        Subnets |-> sns, Instances |-> ins]]
        network(a, n) == nodegroup_state(a, n.w, n.results, <<>>)
        instance(a, i) == nodegroup_state(a, i.w, <<>>, i.results)
        failed(a) ==
            IF failure_type = "network"
            THEN network(a, network_failure(w1(a), vpc_ids, subnet_ids, dry_run, <<>>))
            ELSE IF failure_type = "instance"
            THEN instance(a, instance_failure(w2(a), az, dry_run, filters(a), TRUE))
            ELSE nodegroup_state(a, a.w, <<>>, <<>>)
    IN failed(eks_fail_asgs(w, az, dry_run, ng.AutoScalingGroups, <<>>))

RECURSIVE eks_fail_nodegroups(_, _, _, _, _, _)
eks_fail_nodegroups(acc, c, ngs, az, dry_run, failure_type) ==
    IF ngs = <<>> \/ acc.w.err # "" THEN acc
    ELSE LET rest(r) == eks_fail_nodegroups(
                            [w |-> r.w, state |-> Append(acc.state, r.state)],
                            c, Tail(ngs), az, dry_run, failure_type)
         IN rest(eks_fail_nodegroup(acc.w, c, Head(ngs), az, dry_run, failure_type))

\* fail_az lines 167-289: the loop over the tagged clusters.
\* acc = [w, clusters_state].
RECURSIVE eks_fail_clusters(_, _, _, _, _)
eks_fail_clusters(acc, tagged_clusters, az, dry_run, failure_type) ==
    IF tagged_clusters = <<>> \/ acc.w.err # "" THEN acc
    ELSE LET c == Head(tagged_clusters)
             w1 == Logged(acc.w, "list_nodegroups", c, <<>>)
             target == get_asgs_of_nodegroups_by_az(acc.w, az, c)
             rest(r) == eks_fail_clusters(
                            [w |-> r.w,
                             clusters_state |-> Append(acc.clusters_state,
                                 [ClusterName |-> c, NodeGroups |-> r.state])],
                            Tail(tagged_clusters), az, dry_run, failure_type)
         IN IF target = <<>>
            THEN [acc EXCEPT !.w = Failed(w1, "No ASG(s) for target cluster nodegroups found in AZ")]
            ELSE rest(eks_fail_nodegroups([w |-> w1, state |-> <<>>], c, target,
                                          az, dry_run, failure_type))

\* eks.fail_az(az, dry_run, failure_type, tags, state_path); tagged_clusters
\* is the order list(set(...)) gives the tagged clusters.
eks_fail_az(w, f, az, dry_run, failure_type, tags, state_path, tagged_clusters) ==
    LET v == validate_fail_az_path(TRUE, state_path, "eks", f)
        w1 == Logged(w, "list_clusters", "*", tags)
        fail_az_state(clusters_state) ==
            [Clusters |-> clusters_state, AvailabilityZone |-> az, DryRun |-> dry_run]
        dumped(r) == Finished(v.path, fail_az_state(r.clusters_state), r.w, f,
                              write_state(f, fail_az_state(r.clusters_state), v.path))
    IN IF az = None THEN Raised("no az", state_path, w, f)
       ELSE IF ~v.ok THEN Raised(v.error, v.path, w, f)
       ELSE dumped(eks_fail_clusters([w |-> w1, clusters_state |-> <<>>],
                                     tagged_clusters, az, dry_run, failure_type))

\* recover_az: one node group of the state document.
eks_recover_nodegroup(w, ng) ==
    LET target_instances ==
            SelectSeq(ng.Instances, LAMBDA instance :
                /\ instance.Before.State \in {"pending", "running"}
                /\ instance.After.State = "stopping")
        subnets(w1) ==
            IF ng.Subnets # <<>>
            THEN delete_blackhole_acls(
                     rollback_subnets(w1, ng.Subnets),
                     SelectSeq([k \in 1..MaxIds |-> k], LAMBDA id :
                         id \in recorded_blackhole_acls(ng.Subnets)))
            ELSE w1
        instances(w2) ==
            IF w2.err = "" THEN rollback_instances(w2, target_instances) ELSE w2
    IN instances(subnets(asg_recover_loop(w, ng.AutoScalingGroups)))

RECURSIVE eks_recover_nodegroups(_, _)
eks_recover_nodegroups(w, ngs) ==
    IF ngs = <<>> \/ w.err # "" THEN w
    ELSE eks_recover_nodegroups(eks_recover_nodegroup(w, Head(ngs)), Tail(ngs))

RECURSIVE eks_recover_clusters(_, _)
eks_recover_clusters(w, clusters) ==
    IF clusters = <<>> \/ w.err # "" THEN w
    ELSE eks_recover_clusters(eks_recover_nodegroups(w, Head(clusters).NodeGroups),
                              Tail(clusters))

\* eks.recover_az(state_path)
eks_recover_az(w, f, state_path) ==
    LET v == validate_fail_az_path(FALSE, state_path, "eks", f)
        fail_az_state == read_state(f, v.path)
    IN IF ~v.ok THEN Raised(v.error, v.path, w, f)
       ELSE IF fail_az_state.DryRun THEN Raised("dry run state", v.path, w, f)
       ELSE Finished(v.path, fail_az_state,
                     eks_recover_clusters(w, fail_az_state.Clusters), f,
                     remove_state(f, v.path))

(***************************************************************************)
(* The state machine.                                                      *)
(***************************************************************************)
\* The cloud and an empty call log, as an invocation finds them.
World == [asgs |-> asgs, ec2 |-> ec2, elbs |-> elbs, albs |-> albs, rds |-> rds, mq |-> mq, eks |-> eks, calls |-> <<>>, err |-> ""]

\* The cloud alone: what a later rollback is compared with.
Cloud == [asgs |-> asgs, ec2 |-> ec2, elbs |-> elbs, albs |-> albs,
          rds |-> rds, mq |-> mq]

NoRequest == [az |-> None, dry_run |-> FALSE, tags |-> <<>>]

\* Placeholder for `pre` when no rollback is owed.
NoCloud == [asgs |-> <<>>, ec2 |-> <<>>, elbs |-> <<>>, albs |-> <<>>,
            rds |-> <<>>, mq |-> <<>>]

\* What the file system holds at `path`: no file, the document of a dry
\* run, or the document of a real run.
Found(f, path) ==
    IF path \notin DOMAIN f \/ ~isfile(f, path) THEN "none"
    ELSE IF read_state(f, path).DryRun THEN "dry" ELSE "real"

\* An invocation `op` of module `svc` with request `req` ended as `o`.
\* `last` records it: the request, the (normalized) path, how it ended, what
\* it found at the path, whether it changed the cloud or the file system,
\* and whether the invocation before it was a successful recover_az of the
\* same path.  `live` is the state each instance was in when a recover_az of
\* ec2 or eks began.  `inverts` holds for a rollback that directly follows the
\* successful non-dry-run fail_az that wrote the very file it reads.  `pre`
\* is the cloud a fail_az found; it is handed on to the rollback that
\* inverts it.
Commit(op, svc, req, o) ==
    LET inverts == /\ op = "recover_az"
                   /\ last.op = "fail_az" /\ last.svc = svc
                   /\ last.result = "ok" /\ ~last.req.dry_run
                   /\ last.path = o.path
    IN /\ asgs' = o.w.asgs
       /\ ec2' = o.w.ec2
       /\ elbs' = o.w.elbs
       /\ albs' = o.w.albs
       /\ rds' = o.w.rds
       /\ mq' = o.w.mq
       /\ calls' = o.w.calls
       /\ fs' = o.fs
       /\ last' = [op |-> op, svc |-> svc, req |-> req, path |-> o.path,
                   result |-> o.result, error |-> o.error, doc |-> o.doc,
                   inverts |-> inverts,
                   pre |-> IF inverts THEN last.pre
                           ELSE IF op = "fail_az" THEN Cloud ELSE NoCloud,
                   found |-> Found(fs, o.path),
                   fs_same |-> (o.fs = fs),
                   cloud_same |-> (o.w.asgs = asgs /\ o.w.ec2 = ec2 /\ o.w.elbs = elbs
                                   /\ o.w.albs = albs /\ o.w.rds = rds /\ o.w.mq = mq),
                   after_recover |-> (/\ last.op = "recover_az" /\ last.result = "ok"
                                      /\ last.path = o.path),
                   live |-> IF op = "recover_az" /\ svc \in {"ec2", "eks"}
                            THEN [id \in DOMAIN ec2.instances |->
                                     ec2.instances[id].state]
                            ELSE <<>>]
       /\ UNCHANGED <<service, eks, inflight>>

Tagged == {Tag("AZ_FAILURE", "True")}

\* The variables of the services an invocation does not touch.
NoAsgs == <<>>

NoEC2 == <<>>

NoElbs == <<>>

NoAlbs == <<>>

NoRds == <<>>

NoMq == <<>>

NoEks == <<>>

TagSets ==
    {Tagged, {Tag("AZ_FAILURE", "False"), Tag("env", "prod")},
     {Tag("AZ_FAILURE", "True"), Tag("env", "prod")}}

Capacities ==
    {[MinSize |-> d - 1, MaxSize |-> MaxCapacity, DesiredCapacity |-> d] :
        d \in 1..MaxCapacity}

Group(tags, subnets, suspended, c) ==
    [Tags |-> tags, VPCZoneIdentifier |-> join(subnets),
     SuspendedProcesses |-> suspended, MinSize |-> c.MinSize,
     MaxSize |-> c.MaxSize, DesiredCapacity |-> c.DesiredCapacity, Status |-> ""]

\* The groups the account may hold: in one AZ or several, with AZRebalance
\* suspended or not, tagged as requested or not, one of them being deleted.
GroupConfigs ==
    {Group(t, <<"s1">>, {}, c) : t \in TagSets, c \in Capacities}
    \cup {Group(t, <<"s3", "s1", "s2">>, sp, [MinSize |-> 1, MaxSize |-> 3, DesiredCapacity |-> 2]) :
            t \in TagSets, sp \in {{}, {"AZRebalance"}}}
    \cup {Group(t, <<"s2", "s3">>, {"Launch"}, [MinSize |-> 0, MaxSize |-> 1, DesiredCapacity |-> 1]) :
            t \in TagSets}
    \cup {[Group(Tagged, <<"s2">>, {}, [MinSize |-> 1, MaxSize |-> 2, DesiredCapacity |-> 1])
               EXCEPT !.Status = "Delete in progress"]}

ASGInit ==
    /\ service = "asg"
    /\ ec2 = NoEC2 /\ elbs = NoElbs /\ albs = NoAlbs /\ rds = NoRds /\ mq = NoMq /\ eks = NoEks
    /\ \E g1 \in GroupConfigs,
          g2 \in {Group(Tagged, <<"s1", "s2", "s3">>, {},
                        [MinSize |-> 1, MaxSize |-> 2, DesiredCapacity |-> 1]),
                  Group(Tagged, <<"s2">>, {"AZRebalance"},
                        [MinSize |-> 1, MaxSize |-> 1, DesiredCapacity |-> 1])} :
          asgs = [n \in ASGNames |-> IF n = "g1" THEN g1 ELSE g2]

Acl(vpc_id, tags) == [VpcId |-> vpc_id, Tags |-> tags]

Association(id, acl_id) == [NetworkAclAssociationId |-> id, NetworkAclId |-> acl_id]

Instance(az, tags, lifecycle, spot_type, state) ==
    [az |-> az, tags |-> tags, lifecycle |-> lifecycle, spot_type |-> spot_type,
     request |-> IF lifecycle = "spot" THEN "active" ELSE "", state |-> state,
     asg |-> ""]

\* Subnets tagged for failure or not.
SubnetTagConfigs ==
    {[sn \in Subnets |-> IF sn = "s5" THEN {} ELSE Tagged],
     [sn \in Subnets |-> IF sn = "s1" THEN Tagged \cup {Tag("env", "prod")}
                         ELSE IF sn \in {"s4", "s5"} THEN {} ELSE Tagged]}

\* Network ACLs 1 and 2 of vpc-1 and 3 of vpc-2, associations 4 to 8;
\* ACL 2 may be a blackhole ACL left by an earlier experiment.
AclConfigs ==
    {[acls |-> <<Acl("vpc-1", {}), Acl("vpc-1", t2), Acl("vpc-2", {})>>,
      assoc |-> [sn \in Subnets |->
                    CASE sn = "s1" -> Association(4, 1)
                      [] sn = "s2" -> Association(5, a2)
                      [] sn = "s3" -> Association(6, 2)
                      [] sn = "s4" -> Association(7, 3)
                      [] sn = "s5" -> Association(8, 1)]] :
        t2 \in {{}, {BlackholeTag}}, a2 \in {1, 2}}

InstanceConfigs ==
    {[id \in InstanceIds |->
        CASE id = "i1" -> Instance("az-a", Tagged, "normal", "", "running")
          [] id = "i2" -> i2
          [] id = "i3" -> i3] :
        i2 \in {Instance("az-a", Tagged, "spot", "persistent", "running"),
                Instance("az-a", Tagged, "spot", "one-time", "running"),
                Instance("az-a", Tagged, "scheduled", "", "running"),
                Instance("az-a", {}, "normal", "", "pending")},
        i3 \in {Instance("az-b", Tagged, "normal", "", "stopped"),
                Instance("az-b", Tagged \cup {Tag("env", "prod")}, "spot", "one-time", "running")}}

EC2OfConfig(tags, a, ins) ==
    [subnet_tags |-> tags, acls |-> a.acls, assoc |-> a.assoc,
     instances |-> ins, ids |-> 8]

\* An account whose subnets are tagged for the experiment and whose
\* instances are not, or the other way round.
EC2Init ==
    /\ service = "ec2"
    /\ asgs = NoAsgs /\ elbs = NoElbs /\ albs = NoAlbs /\ rds = NoRds /\ mq = NoMq /\ eks = NoEks
    /\ \/ \E tags \in SubnetTagConfigs, a \in AclConfigs :
            ec2 = EC2OfConfig(tags, a,
                      [id \in InstanceIds |->
                          Instance("az-a", {}, "normal", "", "running")])
       \/ \E ins \in InstanceConfigs :
            ec2 = EC2OfConfig([sn \in Subnets |-> {}],
                      CHOOSE a \in AclConfigs :
                          a.acls[2].Tags = {} /\ a.assoc["s2"].NetworkAclId = 1,
                      ins)

LB(tags, vpc_id, subnets, azs) ==
    [Tags |-> tags, VPCId |-> vpc_id, Subnets |-> subnets, AvailabilityZones |-> azs]

\* lb1 is attached to subnets of vpc-1, lb2 has AZs of the default VPC enabled.
ELBInit ==
    /\ service = "elb"
    /\ asgs = NoAsgs /\ ec2 = NoEC2 /\ albs = NoAlbs /\ rds = NoRds /\ mq = NoMq /\ eks = NoEks
    /\ \E t1 \in TagSets, sns \in {<<"s1", "s2">>, <<"s1">>, <<"s2", "s3">>},
          t2 \in {Tagged, {Tag("AZ_FAILURE", "True"), Tag("env", "prod")}},
          azs \in {<<"az-a", "az-b">>, <<"az-b", "az-c">>, <<"az-a">>} :
          elbs = [lb \in LBNames |->
                     IF lb = "lb1" THEN LB(t1, "vpc-1", sns, zones_of(sns))
                     ELSE LB(t2, DefaultVpc, <<>>, azs)]

LBv2(tags, type, subnets) ==
    [Tags |-> tags, Type |-> type, State |-> "active", Subnets |-> subnets]

\* alb1 of either type, in two or three AZs, tagged or not; alb2 an
\* application load balancer in three AZs or a network one in two.
ELBv2Init ==
    /\ service = "elbv2"
    /\ asgs = NoAsgs /\ ec2 = NoEC2 /\ elbs = NoElbs /\ rds = NoRds /\ mq = NoMq /\ eks = NoEks
    /\ \E t1 \in TagSets, type \in {"application", "network"},
          sns \in {{"s1", "s2", "s3"}, {"s1", "s2"}, {"s2", "s3"}},
          lb2 \in {LBv2(Tagged, "application", {"s1", "s2", "s3"}),
                   LBv2(Tagged, "network", {"s2", "s3"})} :
          albs = [lb \in LBv2Names |->
                     IF lb = "alb1" THEN LBv2(t1, type, sns) ELSE lb2]

DB(tags, az, secondary, multi_az) ==
    [TagList |-> tags, AvailabilityZone |-> az, SecondaryAvailabilityZone |-> secondary,
     MultiAZ |-> multi_az, DBInstanceStatus |-> "available"]

Member(id, writer) == [DBInstanceIdentifier |-> id, IsClusterWriter |-> writer]

Cluster(tags, members) ==
    [TagList |-> tags, MultiAZ |-> TRUE, Status |-> "available",
     DBClusterMembers |-> members]

\* db1 is a stand-alone instance, m1 and m2 are the members of cluster c1.
RDSOfConfig(db1, writer_az, reader_az, members, tags) ==
    [dbs |-> [id \in DBIds |->
                 CASE id = "db1" -> db1
                   [] id = "m1" -> DB({}, writer_az, "", FALSE)
                   [] id = "m2" -> DB({}, reader_az, "", FALSE)],
     clusters |-> [c \in Range(ClusterOrder) |-> Cluster(tags, members)]]

RDSInit ==
    /\ service = "rds"
    /\ asgs = NoAsgs /\ ec2 = NoEC2 /\ elbs = NoElbs /\ albs = NoAlbs /\ mq = NoMq /\ eks = NoEks
    /\ \/ \E tags \in TagSets, az \in {"az-a", "az-c"}, multi_az \in BOOLEAN,
             status \in {"available", "rebooting"} :
            rds = RDSOfConfig([DB(tags, az, "az-b", multi_az)
                                  EXCEPT !.DBInstanceStatus = status],
                              "az-a", "az-b",
                              <<Member("m1", TRUE), Member("m2", FALSE)>>, Tagged)
       \/ \E writer_az \in {"az-a", "az-b"}, reader_az \in {"az-a", "az-c"},
             members \in {<<Member("m1", TRUE), Member("m2", FALSE)>>,
                          <<Member("m2", FALSE), Member("m1", TRUE)>>},
             tags \in {Tagged, {}}, status \in {"available", "failing-over"} :
            rds = [RDSOfConfig(DB(Tagged, "az-a", "az-b", TRUE), writer_az, reader_az,
                               members, tags)
                      EXCEPT !.clusters["c1"].Status = status]

Broker(tags, subnets, engine, mode) ==
    [Tags |-> tags, SubnetIds |-> subnets, EngineType |-> engine,
     DeploymentMode |-> mode, BrokerState |-> "RUNNING"]

BrokerConfigs ==
    {Broker(t, sns, "ActiveMQ", "ACTIVE_STANDBY_MULTI_AZ") :
        t \in TagSets \cup {{}}, sns \in {{"s1", "s2"}, {"s2", "s3"}}}
    \cup {Broker(Tagged, {"s1", "s2"}, "RABBITMQ", "CLUSTER_MULTI_AZ"),
          Broker(Tagged, {"s1"}, "ActiveMQ", "SINGLE_INSTANCE")}

MQInit ==
    /\ service = "mq"
    /\ asgs = NoAsgs /\ ec2 = NoEC2 /\ elbs = NoElbs /\ albs = NoAlbs /\ rds = NoRds /\ eks = NoEks
    /\ \E b2 \in {Broker(Tagged, {"s1", "s2"}, "ActiveMQ", "ACTIVE_STANDBY_MULTI_AZ"),
                  Broker({}, {"s1", "s2"}, "ActiveMQ", "ACTIVE_STANDBY_MULTI_AZ")},
          b3 \in BrokerConfigs, state \in {"RUNNING", "REBOOT_IN_PROGRESS"} :
          mq = [b \in BrokerIds |->
                   CASE b = "b1" -> Broker(Tagged, {"s1", "s2"}, "ActiveMQ",
                                           "ACTIVE_STANDBY_MULTI_AZ")
                     [] b = "b2" -> b2
                     [] b = "b3" -> b3
                     [] b = "b4" -> [Broker(Tagged, {"s1", "s2"}, "ActiveMQ",
                                            "ACTIVE_STANDBY_MULTI_AZ")
                                        EXCEPT !.BrokerState = state]]

NodeGroup(name, groups, subnets) ==
    [name |-> name, asgs |-> groups, subnets |-> subnets]

EKSCluster(tags, nodegroups) == [tags |-> tags, nodegroups |-> nodegroups]

InstanceOf(asg, az, lifecycle, spot_type) ==
    [Instance(az, {}, lifecycle, spot_type, "running") EXCEPT !.asg = asg]

\* Cluster k1 has node group ng1 on group g1, in one AZ or three, with
\* AZRebalance suspended or not; cluster k2 has ng2 on group g2 in az-b,
\* on the subnet s2 that ng1 may use too or on s5 of the same VPC.
\* Either cluster of the base configuration may lack the tag.  i1 is the instance of g1, i2 that of
\* g2, i3 belongs to no group.
EKSConfig(sns, sp, sn2, az1, i2) ==
    [sns |-> sns, sp |-> sp, sn2 |-> sn2, az1 |-> az1, i2 |-> i2]

EKSBase ==
    EKSConfig(<<"s1", "s2", "s3">>, {}, "s2", "az-a",
              InstanceOf("g2", "az-b", "spot", "one-time"))

\* g1 has one instance, in az-a or in az-b; the instance of g2, in az-b,
\* is a one-time spot instance or a normal one.
EKSConfigs ==
    LET spot == InstanceOf("g2", "az-b", "spot", "one-time")
    IN {EKSBase,
        EKSConfig(<<"s1">>, {}, "s2", "az-a", spot),
        EKSConfig(<<"s1", "s2", "s3">>, {"AZRebalance"}, "s2", "az-a", spot),
        EKSConfig(<<"s1", "s2", "s3">>, {}, "s5", "az-a", spot),
        EKSConfig(<<"s1", "s2", "s3">>, {}, "s2", "az-b",
                  InstanceOf("g2", "az-b", "normal", ""))}

EKSInit ==
    /\ service = "eks"
    /\ elbs = NoElbs /\ albs = NoAlbs /\ rds = NoRds /\ mq = NoMq
    /\ \E t1 \in {Tagged, {}}, t2 \in {Tagged, {}}, cfg \in EKSConfigs :
       /\ cfg = EKSBase \/ (t1 = Tagged /\ t2 = Tagged)
       /\ LET sns == cfg.sns
              sp == cfg.sp
              sn2 == cfg.sn2
              i2 == cfg.i2
          IN
          /\ eks = [c \in ClusterNames |->
                       IF c = "k1"
                       THEN EKSCluster(t1, <<NodeGroup("ng1", <<"g1">>, sns)>>)
                       ELSE EKSCluster(t2, <<NodeGroup("ng2", <<"g2">>, <<sn2>>)>>)]
          /\ asgs = [n \in ASGNames |->
                       IF n = "g1"
                       THEN Group({}, sns, sp, [MinSize |-> 1, MaxSize |-> 2,
                                                DesiredCapacity |-> 1])
                       ELSE Group({}, <<sn2>>, {}, [MinSize |-> 1, MaxSize |-> 1,
                                                     DesiredCapacity |-> 1])]
          /\ ec2 = EC2OfConfig([sn \in Subnets |-> {}],
                       CHOOSE a \in AclConfigs :
                           a.acls[2].Tags = {} /\ a.assoc["s2"].NetworkAclId = 1,
                       [id \in InstanceIds |->
                           CASE id = "i1" -> InstanceOf("g1", cfg.az1, "normal", "")
                             [] id = "i2" -> i2
                             [] id = "i3" -> InstanceOf("", "az-a", "normal", "")])

\* No state file yet; the path the caller gives may name a directory.
FsInit ==
    \E at \in {NoFile, Dir} :
        fs = [p \in AllPaths |-> IF p \in PathInputs THEN at ELSE NoFile]

LastInit ==
    /\ calls = <<>>
    /\ last = [op |-> "none", svc |-> "none", req |-> NoRequest, path |-> <<>>,
               result |-> "none", error |-> "", doc |-> <<>>,
               inverts |-> FALSE, pre |-> NoCloud, found |-> "none",
               fs_same |-> TRUE, cloud_same |-> TRUE, after_recover |-> FALSE,
               live |-> <<>>]

Request(az, dry_run, tags) == [az |-> az, dry_run |-> dry_run, tags |-> tags]

ASGFailAz ==
    /\ service = "asg"
    /\ \E az \in TargetAZs, dry_run \in BOOLEAN, tags \in TagInputs,
          state_path \in PathInputs :
         \E order \in Orders(asg_targets(asgs, az, tags)) :
            Commit("fail_az", "asg", Request(az, dry_run, tags),
                   asg_fail_az(World, fs, az, dry_run, tags, state_path, order))

ASGRecoverAz ==
    /\ service = "asg"
    /\ \E state_path \in PathInputs :
         Commit("recover_az", "asg", NoRequest,
                asg_recover_az(World, fs, state_path))

\* The requests made of ec2.fail_az: by AZ, by tag filter, by an AZ filter
\* that spans both VPCs, and without any AZ.
EC2Inputs ==
    {[az |-> "az-a", failure_type |-> "network", filters |-> <<>>],
     [az |-> "az-b", failure_type |-> "network",
      filters |-> <<Filter(<<"tag", "env">>, {"prod"})>>],
     [az |-> None, failure_type |-> "network",
      filters |-> <<Filter(<<"availability-zone">>, {"az-a", "az-b"})>>],
     [az |-> "az-a", failure_type |-> "instance", filters |-> <<>>],
     [az |-> "az-b", failure_type |-> "instance",
      filters |-> <<Filter(<<"tag", "env">>, {"prod"})>>],
     [az |-> None, failure_type |-> "instance", filters |-> <<>>]}

EC2Request(az, dry_run, failure_type, filters) ==
    [az |-> az, dry_run |-> dry_run, tags |-> filters, failure_type |-> failure_type]

EC2FailAz ==
    /\ service = "ec2"
    /\ \E i \in EC2Inputs, dry_run \in BOOLEAN, state_path \in PathInputs :
         \E vpc_ids \in Orders(vpcs_of(ec2_describe_subnets(
                                   ec2, ec2_filters(i.az, i.filters)))) :
            \E o \in {ec2_fail_az(World, fs, i.az, dry_run, i.failure_type,
                                  i.filters, state_path, vpc_ids)} :
               /\ o.w.ec2.ids <= MaxIds
               /\ Commit("fail_az", "ec2",
                         EC2Request(i.az, dry_run, i.failure_type, i.filters), o)

\* The file recover_az will read at state_path, if any.
ec2_state_at(state_path) ==
    LET v == validate_fail_az_path(FALSE, state_path, "ec2", fs)
    IN IF v.ok THEN read_state(fs, v.path).Subnets ELSE <<>>

EC2RecoverAz ==
    /\ service = "ec2"
    /\ \E state_path \in PathInputs :
         \E blackhole_acl_ids \in Orders(recorded_blackhole_acls(ec2_state_at(state_path))) :
            \E o \in {ec2_recover_az(World, fs, state_path, blackhole_acl_ids)} :
               /\ o.w.ec2.ids <= MaxIds
               /\ Commit("recover_az", "ec2", NoRequest, o)

\* The service completes a state transition of an instance.
settled_state(state) ==
    CASE state = "stopping" -> "stopped"
      [] state = "shutting-down" -> "terminated"
      [] state = "pending" -> "running"
      [] OTHER -> state

InstanceSettles ==
    /\ service \in {"ec2", "eks"}
    /\ \E id \in InstanceIds :
         /\ settled_state(ec2.instances[id].state) # ec2.instances[id].state
         /\ ec2' = [ec2 EXCEPT !.instances[id].state = settled_state(@)]
    /\ UNCHANGED <<service, fs, asgs, elbs, albs, rds, mq, eks, calls, last, inflight>>

\* The requests made of elb.fail_az: by tags alone, and with lb_names.
ELBInputs ==
    {[az |-> "az-a", tags |-> DefaultTags, lb_names |-> {}],
     [az |-> "az-b", tags |-> DefaultTags, lb_names |-> {}],
     [az |-> "az-a", tags |-> <<Tag("AZ_FAILURE", "True"), Tag("env", "prod")>>,
      lb_names |-> {}],
     [az |-> "az-a", tags |-> DefaultTags, lb_names |-> {"lb2"}]}

ELBRequest(az, dry_run, tags, lb_names) ==
    [az |-> az, dry_run |-> dry_run, tags |-> tags, lb_names |-> lb_names]

ELBFailAz ==
    /\ service = "elb"
    /\ \E i \in ELBInputs, dry_run \in BOOLEAN, state_path \in PathInputs :
         \E order \in Orders(elb_non_default_vpc_lbs(elbs, i.az, i.lb_names, i.tags)) :
            Commit("fail_az", "elb", ELBRequest(i.az, dry_run, i.tags, i.lb_names),
                   elb_fail_az(World, fs, i.az, dry_run, i.lb_names, i.tags,
                               state_path, order))

ELBRecoverAz ==
    /\ service = "elb"
    /\ \E state_path \in PathInputs :
         Commit("recover_az", "elb", NoRequest,
                elb_recover_az(World, fs, state_path))

ELBv2FailAz ==
    /\ service = "elbv2"
    /\ \E az \in TargetAZs, dry_run \in BOOLEAN, tags \in TagInputs,
          state_path \in PathInputs :
         \E lb_arns \in Orders(elbv2_targets(albs, az, tags)) :
            Commit("fail_az", "elbv2", Request(az, dry_run, tags),
                   elbv2_fail_az(World, fs, az, dry_run, tags, state_path, lb_arns))

ELBv2RecoverAz ==
    /\ service = "elbv2"
    /\ \E state_path \in PathInputs :
         Commit("recover_az", "elbv2", NoRequest,
                elbv2_recover_az(World, fs, state_path))

RDSFailAz ==
    /\ service = "rds"
    /\ \E az \in TargetAZs, dry_run \in BOOLEAN, tags \in TagInputs :
         \E tasks, appends \in Orders(rds_tasks(rds, az, tags)) :
            Commit("fail_az", "rds", Request(az, dry_run, tags),
                   rds_fail_az(World, fs, az, dry_run, tags, tasks, appends))

MQFailAz ==
    /\ service = "mq"
    /\ \E az \in TargetAZs, dry_run \in BOOLEAN, tags \in TagInputs :
         \E tasks, appends \in Orders(Range(activemq_brokers(mq, tags, az))) :
            Commit("fail_az", "mq", Request(az, dry_run, tags),
                   mq_fail_az(World, fs, az, dry_run, tags, tasks, appends))

\* The requests made of eks.fail_az.
EKSInputs ==
    {[az |-> "az-a", failure_type |-> "network", tags |-> DefaultTags],
     [az |-> "az-a", failure_type |-> "instance", tags |-> DefaultTags],
     [az |-> "az-b", failure_type |-> "network", tags |-> DefaultTags],
     [az |-> "az-b", failure_type |-> "instance", tags |-> DefaultTags],
     [az |-> "az-b", failure_type |-> "instance",
      tags |-> <<Tag("AZ_FAILURE", "True"), Tag("env", "prod")>>]}

EKSFailAz ==
    /\ service = "eks"
    /\ \E i \in EKSInputs, dry_run \in BOOLEAN, state_path \in PathInputs :
         \E tagged_clusters \in Orders(get_clusters_by_tags(eks, i.tags)) :
            \E o \in {eks_fail_az(World, fs, i.az, dry_run, i.failure_type, i.tags,
                                  state_path, tagged_clusters)} :
               /\ o.w.ec2.ids <= MaxIds
               /\ Commit("fail_az", "eks",
                         EC2Request(i.az, dry_run, i.failure_type, i.tags), o)

EKSRecoverAz ==
    /\ service = "eks"
    /\ \E state_path \in PathInputs :
         \E o \in {eks_recover_az(World, fs, state_path)} :
            /\ o.w.ec2.ids <= MaxIds
            /\ Commit("recover_az", "eks", NoRequest, o)

Init ==
    /\ ASGInit \/ EC2Init \/ ELBInit \/ ELBv2Init \/ RDSInit \/ MQInit \/ EKSInit
    /\ FsInit
    /\ LastInit
    /\ inflight = <<>>

Next ==
    \/ ASGFailAz \/ ASGRecoverAz
    \/ EC2FailAz \/ EC2RecoverAz \/ InstanceSettles
    \/ ELBFailAz \/ ELBRecoverAz
    \/ ELBv2FailAz \/ ELBv2RecoverAz
    \/ RDSFailAz \/ MQFailAz
    \/ EKSFailAz \/ EKSRecoverAz

Spec == Init /\ [][Next]_vars

(***************************************************************************)
(* azchaosaws/utils.py and the argument checks that open every fail_az.    *)
(* An experiment calls fail_az with keyword arguments as its file gives    *)
(* them: dry_run may be missing, None, a boolean or a string of any case.  *)
(* A string is the sequence of its characters, so that lower() is          *)
(* computed.                                                               *)
(***************************************************************************)
Bool(b) == [type |-> "bool", bool |-> b, str |-> <<>>]
Str(s) == [type |-> "str", bool |-> FALSE, str |-> s]
NoneValue == [type |-> "NoneType", bool |-> FALSE, str |-> <<>>]

\* str.lower(), character by character.
lower(s) ==
    [i \in DOMAIN s |->
        CASE s[i] = "T" -> "t" [] s[i] = "R" -> "r" [] s[i] = "U" -> "u"
          [] s[i] = "E" -> "e" [] s[i] = "F" -> "f" [] s[i] = "A" -> "a"
          [] s[i] = "L" -> "l" [] s[i] = "S" -> "s" [] s[i] = "Y" -> "y"
          [] OTHER -> s[i]]

\* utils.args_fmt: the wrapper around every fail_az.  It reads
\* kwargs["dry_run"] (a KeyError when the key is missing) and turns a string
\* into True, False or None.
args_fmt(kwargs) ==
    IF "dry_run" \notin DOMAIN kwargs
    THEN [raised |-> "KeyError: 'dry_run'", kwargs |-> kwargs]
    ELSE IF kwargs.dry_run.type = "str"
    THEN [raised |-> "",
          kwargs |-> [kwargs EXCEPT !.dry_run =
                        IF \/ lower(kwargs.dry_run.str) = <<"t", "r", "u", "e">>
                           \/ lower(kwargs.dry_run.str) = <<"f", "a", "l", "s", "e">>
                        THEN Bool(lower(kwargs.dry_run.str) = <<"t", "r", "u", "e">>)
                        ELSE NoneValue]]
    ELSE [raised |-> "", kwargs |-> kwargs]

\* The first statement of every fail_az, `if dry_run is None: raise`, behind
\* args_fmt: the error that ends the call, or "" and the flag.
require_dry_run(kwargs) ==
    LET a == args_fmt(kwargs)
    IN IF a.raised # "" THEN [error |-> a.raised, dry_run |-> FALSE]
       ELSE IF a.kwargs.dry_run.type = "NoneType"
       THEN [error |-> "you must specify a dry_run", dry_run |-> FALSE]
       ELSE [error |-> "", dry_run |-> a.kwargs.dry_run.bool]

\* The values of dry_run tried.
DryRunValues ==
    {NoneValue, Bool(TRUE), Bool(FALSE),
     Str(<<"t", "r", "u", "e">>), Str(<<"T", "R", "U", "E">>),
     Str(<<"F", "a", "l", "s", "e">>), Str(<<"y", "e", "s">>), Str(<<>>)}

\* The keyword arguments of a call: dry_run as given, or no dry_run at all.
Kwargs(given, v) == [k \in (IF given THEN {"dry_run"} ELSE {}) |-> v]

KwargsInputs == {Kwargs(TRUE, v) : v \in DryRunValues} \cup {Kwargs(FALSE, NoneValue)}

\* The request of a call: the AZ (None when none is given), the flag as
\* fail_az sees it, and the keyword arguments as given.
KwRequest(az, kwargs, tags) ==
    [az |-> az, dry_run |-> require_dry_run(kwargs).dry_run, tags |-> tags,
     kwargs |-> kwargs]

\* The AZ of a call: None when the request names none.
AZInputs == TargetAZs \cup {None}

ASGFailAzKw ==
    /\ service = "asg"
    /\ \E az \in AZInputs, kwargs \in KwargsInputs, state_path \in PathInputs :
         \E c \in {require_dry_run(kwargs)} :
            \E order \in Orders(asg_targets(asgs, az, DefaultTags)) :
               Commit("fail_az", "asg", KwRequest(az, kwargs, DefaultTags),
                      IF c.error # "" THEN Raised(c.error, state_path, World, fs)
                      ELSE asg_fail_az(World, fs, az, c.dry_run, DefaultTags,
                                       state_path, order))

EC2FailAzKw ==
    /\ service = "ec2"
    /\ \E i \in EC2Inputs, kwargs \in KwargsInputs, state_path \in PathInputs :
         \E c \in {require_dry_run(kwargs)} :
            \E vpc_ids \in Orders(vpcs_of(ec2_describe_subnets(
                                      ec2, ec2_filters(i.az, i.filters)))) :
               \E o \in {IF c.error # "" THEN Raised(c.error, state_path, World, fs)
                         ELSE ec2_fail_az(World, fs, i.az, c.dry_run, i.failure_type,
                                          i.filters, state_path, vpc_ids)} :
                  /\ o.w.ec2.ids <= MaxIds
                  /\ Commit("fail_az", "ec2", KwRequest(i.az, kwargs, i.filters), o)

ELBFailAzKw ==
    /\ service = "elb"
    /\ \E az \in AZInputs, kwargs \in KwargsInputs, state_path \in PathInputs :
         \E c \in {require_dry_run(kwargs)} :
            \E order \in Orders(elb_non_default_vpc_lbs(elbs, az, {}, DefaultTags)) :
               Commit("fail_az", "elb", KwRequest(az, kwargs, DefaultTags),
                      IF c.error # "" THEN Raised(c.error, state_path, World, fs)
                      ELSE elb_fail_az(World, fs, az, c.dry_run, {}, DefaultTags,
                                       state_path, order))

ELBv2FailAzKw ==
    /\ service = "elbv2"
    /\ \E az \in AZInputs, kwargs \in KwargsInputs, state_path \in PathInputs :
         \E c \in {require_dry_run(kwargs)} :
            \E lb_arns \in Orders(elbv2_targets(albs, az, DefaultTags)) :
               Commit("fail_az", "elbv2", KwRequest(az, kwargs, DefaultTags),
                      IF c.error # "" THEN Raised(c.error, state_path, World, fs)
                      ELSE elbv2_fail_az(World, fs, az, c.dry_run, DefaultTags,
                                         state_path, lb_arns))

RDSFailAzKw ==
    /\ service = "rds"
    /\ \E az \in AZInputs, kwargs \in KwargsInputs :
         \E c \in {require_dry_run(kwargs)} :
            \E tasks, appends \in Orders(rds_tasks(rds, az, DefaultTags)) :
               Commit("fail_az", "rds", KwRequest(az, kwargs, DefaultTags),
                      IF c.error # "" THEN Raised(c.error, <<>>, World, fs)
                      ELSE rds_fail_az(World, fs, az, c.dry_run, DefaultTags,
                                       tasks, appends))

MQFailAzKw ==
    /\ service = "mq"
    /\ \E az \in AZInputs, kwargs \in KwargsInputs :
         \E c \in {require_dry_run(kwargs)} :
            \E tasks, appends \in Orders(Range(activemq_brokers(mq, DefaultTags, az))) :
               Commit("fail_az", "mq", KwRequest(az, kwargs, DefaultTags),
                      IF c.error # "" THEN Raised(c.error, <<>>, World, fs)
                      ELSE mq_fail_az(World, fs, az, c.dry_run, DefaultTags,
                                      tasks, appends))

EKSFailAzKw ==
    /\ service = "eks"
    /\ \E az \in AZInputs, kwargs \in KwargsInputs, state_path \in PathInputs :
         \E c \in {require_dry_run(kwargs)} :
            \E tagged_clusters \in Orders(get_clusters_by_tags(eks, DefaultTags)) :
               \E o \in {IF c.error # "" THEN Raised(c.error, state_path, World, fs)
                         ELSE eks_fail_az(World, fs, az, c.dry_run, "network",
                                          DefaultTags, state_path, tagged_clusters)} :
                  /\ o.w.ec2.ids <= MaxIds
                  /\ Commit("fail_az", "eks", KwRequest(az, kwargs, DefaultTags), o)

\* Calls of fail_az with keyword arguments as an experiment file gives them.
KwNext ==
    \/ ASGFailAzKw \/ EC2FailAzKw \/ ELBFailAzKw \/ ELBv2FailAzKw
    \/ RDSFailAzKw \/ MQFailAzKw \/ EKSFailAzKw

KwSpec == Init /\ [][KwNext]_vars

(***************************************************************************)
(* helpers.validate_fail_az_path on its own: the paths a caller may pass,  *)
(* with and without an extension, over a file system that holds a          *)
(* directory, the file of a dry run or the file of a real run at one of    *)
(* them.                                                                   *)
(***************************************************************************)
PathChoices ==
    {<<"fail_az">>, <<"state", "json">>, <<"state", "JSON">>, <<"state", "Json">>,
     <<"state", "txt">>, <<"run", "asg", "json">>}

\* The `service` argument as passed.
ServiceArgs == {"asg", "ASG", "ec2"}

PathUniverse ==
    PathChoices \cup {p \o <<Lower(s), "json">> : p \in PathChoices, s \in ServiceArgs}

PathInit ==
    /\ service = "asg"
    /\ asgs = NoAsgs /\ ec2 = NoEC2 /\ elbs = NoElbs /\ albs = NoAlbs
    /\ rds = NoRds /\ mq = NoMq /\ eks = NoEks
    /\ LastInit
    /\ inflight = <<>>
    /\ \E at \in PathUniverse,
          kind \in {NoFile, Dir, File([DryRun |-> TRUE]), File([DryRun |-> FALSE])} :
          fs = [p \in PathUniverse |-> IF p = at THEN kind ELSE NoFile]

\* A call of validate_fail_az_path ended as v.
Validated(fail_if_exists, path, svc, again, v) ==
    /\ last' = [last EXCEPT !.op = "validate_fail_az_path", !.svc = svc,
                            !.req = [path |-> path, fail_if_exists |-> fail_if_exists,
                                     again |-> again],
                            !.path = v.path,
                            !.result = IF v.ok THEN "ok" ELSE "error",
                            !.error = v.error]
    /\ UNCHANGED <<service, fs, asgs, ec2, elbs, albs, rds, mq, eks, calls, inflight>>

\* validate_fail_az_path(fail_if_exists, path, service), as fail_az (True)
\* and recover_az (False) call it.
ValidatePath ==
    \E fail_if_exists \in BOOLEAN, path \in PathChoices, svc \in ServiceArgs :
        Validated(fail_if_exists, path, svc, FALSE,
                  validate_fail_az_path(fail_if_exists, path, svc, fs))

\* The same call once more, on the path the last call returned.
ValidateAgain ==
    /\ last.op = "validate_fail_az_path" /\ last.result = "ok"
    /\ Validated(last.req.fail_if_exists, last.path, last.svc, TRUE,
                 validate_fail_az_path(last.req.fail_if_exists, last.path,
                                       last.svc, fs))

PathNext == ValidatePath \/ ValidateAgain

PathSpec == PathInit /\ [][PathNext]_vars

(***************************************************************************)
(* Two invocations of asg.fail_az on the same state path that run side by  *)
(* side, as two chaostoolkit processes do.  Nothing but the file system    *)
(* is shared, and fail_az takes no lock, so the steps of the two           *)
(* interleave at will: the check of the path (lines 80-85), the discovery  *)
(* and the changes made on the groups (87-128), the json.dump (130-131).   *)
(***************************************************************************)
Invocations == {1, 2}

Idle == [pc |-> "idle", az |-> None, dry_run |-> FALSE, seen |-> <<>>,
         path |-> <<>>, doc |-> <<>>, changed |-> FALSE, overwrote |-> FALSE]

RaceInit ==
    /\ ASGInit
    /\ FsInit
    /\ LastInit
    /\ inflight = [p \in Invocations |-> Idle]

\* Lines 80-85: validate_fail_az_path(fail_if_exists=True, ...) on the file
\* system as it is now.
RaceValidate(p) ==
    /\ inflight[p].pc = "idle"
    /\ \E az \in TargetAZs, dry_run \in BOOLEAN, state_path \in PathInputs :
         LET v == validate_fail_az_path(TRUE, state_path, "asg", fs)
         IN inflight' = [inflight EXCEPT ![p] =
                [@ EXCEPT !.pc = IF v.ok THEN "validated" ELSE "rejected",
                          !.az = az, !.dry_run = dry_run, !.seen = fs,
                          !.path = state_path]]
    /\ UNCHANGED <<service, fs, asgs, ec2, elbs, albs, rds, mq, eks, calls, last>>

\* Lines 87-128: the rest of fail_az up to the dump, on the groups as they
\* are now and after the check it made on the file system it saw.
RaceRun(p) ==
    /\ inflight[p].pc = "validated"
    /\ \E order \in Orders(asg_targets(asgs, inflight[p].az, DefaultTags)) :
         \E o \in {asg_fail_az(World, inflight[p].seen, inflight[p].az,
                               inflight[p].dry_run, DefaultTags, inflight[p].path,
                               order)} :
            /\ asgs' = o.w.asgs
            /\ calls' = o.w.calls
            /\ inflight' = [inflight EXCEPT ![p] =
                   [@ EXCEPT !.pc = IF o.result = "ok" THEN "ran" ELSE "failed",
                             !.path = o.path, !.doc = o.doc,
                             !.changed = (o.w.asgs # asgs)]]
    /\ UNCHANGED <<service, fs, ec2, elbs, albs, rds, mq, eks, last>>

\* Lines 130-131: json.dump(fail_az_state, open(state_path, "w")).
RaceDump(p) ==
    /\ inflight[p].pc = "ran"
    /\ fs' = write_state(fs, inflight[p].doc, inflight[p].path)
    /\ inflight' = [inflight EXCEPT ![p] =
           [@ EXCEPT !.pc = "done",
                     !.overwrote = /\ isfile(fs, inflight[p].path)
                                   /\ ~read_state(fs, inflight[p].path).DryRun]]
    /\ UNCHANGED <<service, asgs, ec2, elbs, albs, rds, mq, eks, calls, last>>

RaceNext == \E p \in Invocations : RaceValidate(p) \/ RaceRun(p) \/ RaceDump(p)

RaceSpec == RaceInit /\ [][RaceNext]_vars

(***************************************************************************)
(* The experiments of Spec on a machine where the state file of a real run *)
(* may become impossible to remove while it lies on disk: os.remove then   *)
(* raises.                                                                 *)
(***************************************************************************)
RemovalBlocked ==
    /\ \E p \in DOMAIN fs :
         /\ isfile(fs, p) /\ ~fs[p].pinned /\ ~read_state(fs, p).DryRun
         /\ fs' = [fs EXCEPT ![p].pinned = TRUE]
    /\ UNCHANGED <<service, asgs, ec2, elbs, albs, rds, mq, eks, calls, last, inflight>>

BlockedNext == Next \/ RemovalBlocked

BlockedSpec == Init /\ [][BlockedNext]_vars

(***************************************************************************)
(* Claims.                                                                 *)
(***************************************************************************)
RolledBack(svc) ==
    /\ last.op = "recover_az" /\ last.svc = svc
    /\ last.result = "ok" /\ last.inverts

\* C6: ASG round trip.  When asg.recover_az succeeds on the file that the
\* directly preceding successful non-dry-run asg.fail_az wrote, every group
\* recorded in that file has the subnet list, MinSize/MaxSize/
\* DesiredCapacity and suspended processes it had before fail_az, and the
\* state file no longer exists.
C6_AsgRoundTrip ==
    RolledBack("asg") =>
        /\ \A i \in DOMAIN last.doc.AutoScalingGroups :
              LET n == last.doc.AutoScalingGroups[i].AutoScalingGroupName
              IN asgs[n] = last.pre.asgs[n]
        /\ ~isfile(fs, last.path)

\* C6 witness: a rollback that brought a group scaled to zero back to its
\* capacities.
C6_Witness ==
    /\ RolledBack("asg")
    /\ \E i \in DOMAIN last.doc.AutoScalingGroups :
          LET a == last.doc.AutoScalingGroups[i]
          IN /\ "MinSize" \in DOMAIN a.Before /\ a.Before.MinSize > 0
             /\ a.After.MaxSize = 0
             /\ asgs[a.AutoScalingGroupName].MinSize = a.Before.MinSize

(***************************************************************************)
(* The API calls that change the cloud, and those among the calls of the   *)
(* last invocation.                                                        *)
(***************************************************************************)
MutatingApis ==
    {"update_auto_scaling_group", "suspend_processes", "resume_processes",
     "create_network_acl", "create_network_acl_entry",
     "replace_network_acl_association", "delete_network_acl",
     "stop_instances", "terminate_instances", "cancel_spot_instance_requests",
     "start_instances",
     "detach_load_balancer_from_subnets", "attach_load_balancer_to_subnets",
     "disable_availability_zones_for_load_balancer",
     "enable_availability_zones_for_load_balancer",
     "set_subnets", "reboot_db_instance", "failover_db_cluster", "reboot_broker"}

Mutations == {i \in DOMAIN calls : calls[i].api \in MutatingApis}

\* The errors raised by the checks of the arguments, before the state path
\* is looked at.
ArgumentErrors ==
    {"no az", "no az and no filters", "no az in filters", "you must specify the az"}

\* C1: a fail_az invoked with dry_run = true, of any service module, issues
\* no mutating API call and leaves the cloud as it found it; the document it
\* returns has DryRun = true.
C1_DryRunNoMutation ==
    (last.op = "fail_az" /\ last.req.dry_run) =>
        /\ Mutations = {}
        /\ last.cloud_same
        /\ last.result = "ok" => last.doc.DryRun

\* C1 witness: a dry run of the EC2 network failure that found subnets to
\* blackhole and returned their records.
C1_Witness ==
    /\ last.op = "fail_az" /\ last.svc = "ec2" /\ last.req.dry_run
    /\ last.result = "ok"
    /\ last.doc.Subnets # <<>>
    /\ calls # <<>>

\* C2: a recover_az that finds the document of a dry run at its state path
\* raises, issues no API call at all, and leaves the file system (the state
\* file and its contents) and the cloud unchanged.
C2_RecoverRefusesDryRun ==
    (last.op = "recover_az" /\ last.found = "dry") =>
        /\ last.result = "error"
        /\ last.error = "dry run state"
        /\ calls = <<>>
        /\ last.fs_same
        /\ last.cloud_same
        /\ Found(fs, last.path) = "dry"

\* C2 witness: asg.recover_az refused the file of a dry run that had
\* recorded groups.
C2_Witness ==
    /\ last.op = "recover_az" /\ last.svc = "asg" /\ last.found = "dry"
    /\ read_state(fs, last.path).AutoScalingGroups # <<>>

\* C3: a fail_az whose arguments pass validation is rejected for an existing
\* state file exactly when the normalized path holds a document with
\* DryRun = false, whatever dry_run the new request has.  A rejected
\* invocation issues no API call and changes neither the file system nor
\* the cloud; a successful one leaves its document at the path.
C3_ExistingStateFile ==
    (last.op = "fail_az" /\ last.svc \in Services /\ last.error \notin ArgumentErrors) =>
        /\ (last.error = "existing state file") <=> (last.found = "real")
        /\ last.error = "existing state file" =>
              /\ last.result = "error" /\ calls = <<>>
              /\ last.fs_same /\ last.cloud_same
        /\ last.result = "ok" =>
              /\ isfile(fs, last.path)
              /\ read_state(fs, last.path) = last.doc

\* C3 witness: a dry-run request rejected because of the file of a real run.
C3_Witness ==
    /\ last.op = "fail_az" /\ last.req.dry_run
    /\ last.error = "existing state file"
    /\ last.found = "real"

\* C4: a recover_az that finds no file at the normalized state path fails
\* without having issued any API call, and so without any inverse mutation.
C4_RecoverNeedsFile ==
    (last.op = "recover_az" /\ last.found = "none") =>
        /\ last.result = "error"
        /\ calls = <<>>
        /\ last.cloud_same
        /\ last.fs_same

\* C4 witness: elbv2.recover_az invoked before any fail_az wrote a file.
C4_Witness ==
    /\ last.op = "recover_az" /\ last.svc = "elbv2"
    /\ last.found = "none" /\ last.error = "no state file"

\* C5: after a successful recover_az no file is left at the state path, and
\* a recover_az that directly follows a successful recover_az of the same
\* path (no fail_az in between) fails without any mutating call.
C5_ExactlyOnceRollback ==
    /\ (last.op = "recover_az" /\ last.result = "ok") => ~isfile(fs, last.path)
    /\ (last.op = "recover_az" /\ last.after_recover) =>
          /\ last.result = "error"
          /\ Mutations = {}
          /\ last.cloud_same

\* C5 witness: a second ec2.recover_az right after one that succeeded.
C5_Witness ==
    /\ last.op = "recover_az" /\ last.svc = "ec2" /\ last.after_recover
    /\ last.error = "no state file"

\* C7: EC2 network round trip.  When ec2.recover_az succeeds on the file the
\* directly preceding successful non-dry-run ec2.fail_az wrote, every
\* recorded subnet is associated with the network ACL it had before fail_az,
\* no network ACL that fail_az created is left, and the state file no
\* longer exists.
C7_NetworkRoundTrip ==
    RolledBack("ec2") =>
        /\ \A k \in DOMAIN last.doc.Subnets :
              LET sn == last.doc.Subnets[k]
              IN /\ ec2.assoc[sn.SubnetId].NetworkAclId = sn.Before.NetworkAclId
                 /\ ec2.assoc[sn.SubnetId].NetworkAclId =
                        last.pre.ec2.assoc[sn.SubnetId].NetworkAclId
                 /\ sn.After.NetworkAclId \notin DOMAIN ec2.acls
        /\ DOMAIN ec2.acls \subseteq DOMAIN last.pre.ec2.acls
        /\ ~isfile(fs, last.path)

\* C7 witness: a rollback of subnets of two VPCs, each of which had been
\* given its own blackhole ACL.
C7_Witness ==
    /\ RolledBack("ec2")
    /\ \E j, k \in DOMAIN last.doc.Subnets :
          /\ last.doc.Subnets[j].VpcId # last.doc.Subnets[k].VpcId
          /\ last.doc.Subnets[j].After.NetworkAclId
                # last.doc.Subnets[k].After.NetworkAclId

\* C8: classic ELB round trip.  When elb.recover_az succeeds on the file the
\* directly preceding successful non-dry-run elb.fail_az wrote, every
\* recorded load balancer is attached to all of its Before subnets, or has
\* all of its Before AZs enabled, whatever After value was recorded.
C8_ElbRoundTrip ==
    RolledBack("elb") =>
        \A k \in DOMAIN last.doc.LoadBalancers :
            LET lb == last.doc.LoadBalancers[k]
                now == elbs[lb.LoadBalancerName]
            IN IF "SubnetIds" \in DOMAIN lb.Before
               THEN Range(lb.Before.SubnetIds) \subseteq Range(now.Subnets)
               ELSE Range(lb.Before.AvailabilityZones)
                        \subseteq Range(now.AvailabilityZones)

\* Whether a resource with tag set `carried` has every requested tag.
HasTags(carried, tags) == \A i \in DOMAIN tags : tags[i] \in carried

\* The resources of the cloud `c` that carry every requested tag and have
\* the target AZ in their AZ membership, per service module.  A DB cluster
\* is a member of the AZs of its member instances.
Matching(svc, c, az, tags) ==
    CASE svc = "asg" ->
            {g \in DOMAIN c.asgs :
                HasTags(c.asgs[g].Tags, tags) /\ az \in AvailabilityZonesOf(c.asgs[g])}
      [] svc = "elb" ->
            {lb \in DOMAIN c.elbs :
                HasTags(c.elbs[lb].Tags, tags)
                /\ az \in Range(c.elbs[lb].AvailabilityZones)}
      [] svc = "elbv2" ->
            {lb \in DOMAIN c.albs :
                HasTags(c.albs[lb].Tags, tags)
                /\ \E sn \in c.albs[lb].Subnets : SubnetAZ[sn] = az}
      [] svc = "rds" ->
            {id \in DOMAIN c.rds.dbs :
                HasTags(c.rds.dbs[id].TagList, tags)
                /\ c.rds.dbs[id].AvailabilityZone = az}
            \cup {cl \in DOMAIN c.rds.clusters :
                    /\ HasTags(c.rds.clusters[cl].TagList, tags)
                    /\ \E k \in DOMAIN c.rds.clusters[cl].DBClusterMembers :
                          c.rds.dbs[c.rds.clusters[cl].DBClusterMembers[k]
                                        .DBInstanceIdentifier].AvailabilityZone = az}
      [] svc = "mq" ->
            {b \in DOMAIN c.mq :
                HasTags(c.mq[b].Tags, tags)
                /\ \E sn \in c.mq[b].SubnetIds : SubnetAZ[sn] = az}
      [] OTHER -> {}

\* C9: in asg, elb, elbv2, rds and mq fail_az every resource that is the
\* target of a mutating call carried, when fail_az began, every requested
\* tag and had the target AZ in its AZ membership.
C9_TagAndAZIntersection ==
    (last.op = "fail_az" /\ last.svc \in {"asg", "elb", "elbv2", "rds", "mq"}) =>
        \A i \in Mutations :
            calls[i].target \in Matching(last.svc, last.pre, last.req.az, last.req.tags)

\* The resources an ec2 or eks request selects: the subnets or instances
\* that pass the filters, the tagged clusters with a node group in the AZ.
Selected(svc, c, req) ==
    CASE svc = "ec2" ->
            IF req.failure_type = "network"
            THEN Range(ec2_describe_subnets(c.ec2, ec2_filters(req.az, req.tags)))
            ELSE Range(describe_instances(c.ec2,
                        ec2_filters(req.az, req.tags)
                        \o <<Filter(<<"instance-state-name">>, instance_state_names)>>))
      [] svc = "eks" ->
            {k \in get_clusters_by_tags(eks, req.tags) :
                get_asgs_of_nodegroups_by_az([eks |-> eks, asgs |-> c.asgs],
                                             req.az, k) # <<>>}
      [] OTHER -> Matching(svc, c, req.az, req.tags)

\* C10: a fail_az, of any service module, that gets past the checks of its
\* arguments and of its state path and finds no resource that matches both
\* the tags and the target AZ ends with an error, not with a document.
C10_EmptySelectionFails ==
    (/\ last.op = "fail_az"
     /\ last.error \notin ArgumentErrors \cup {"existing state file", "path is a directory"}
     /\ Selected(last.svc, last.pre, last.req) = {}) =>
        last.result = "error"

\* The calls of the last invocation to `api`, by their place in the log.
CallsTo(api) == {i \in DOMAIN calls : calls[i].api = api}

\* The errors that end a fail_az before it selects any resource.
Rejections == ArgumentErrors \cup {"existing state file", "path is a directory"}

\* C11: in a non-dry-run instance failure every terminate-instances call
\* names only instances whose spot request an earlier cancel call named, and
\* every stop-instances call carries Force = true; in ec2.fail_az each
\* one-time spot instance of the target set is terminated after its request
\* was cancelled and never stopped, and each normal or persistent-spot
\* instance is stopped with Force and never terminated.
C11_SpotCancelBeforeTerminate ==
    (/\ last.op = "fail_az" /\ last.svc \in {"ec2", "eks"}
     /\ ~last.req.dry_run /\ last.error \notin Rejections) =>
        /\ \A s \in CallsTo("stop_instances") : calls[s].args.Force
        /\ \A t \in CallsTo("terminate_instances") :
              \A id \in Range(calls[t].args) :
                 \E c \in CallsTo("cancel_spot_instance_requests") :
                    c < t /\ id \in Range(calls[c].args)
        /\ (last.svc = "ec2" /\ last.req.failure_type = "instance") =>
              \A id \in Selected("ec2", last.pre, last.req) :
                 LET inst == last.pre.ec2.instances[id]
                     stopped == \E s \in CallsTo("stop_instances") :
                                   id \in Range(calls[s].args.InstanceIds)
                     terminated == \E x \in CallsTo("terminate_instances") :
                                      id \in Range(calls[x].args)
                 IN CASE inst.lifecycle = "spot" /\ inst.spot_type = "one-time" ->
                            terminated /\ ~stopped
                      [] inst.lifecycle = "normal"
                         \/ (inst.lifecycle = "spot" /\ inst.spot_type = "persistent") ->
                            stopped /\ ~terminated
                      [] OTHER -> TRUE

\* A one-time spot instance and a normal instance brought down by one
\* successful ec2.fail_az.
C11_Witness ==
    /\ last.op = "fail_az" /\ last.svc = "ec2" /\ ~last.req.dry_run
    /\ last.req.failure_type = "instance" /\ last.result = "ok"
    /\ CallsTo("terminate_instances") # {} /\ CallsTo("stop_instances") # {}
    /\ \E id \in Selected("ec2", last.pre, last.req) :
          /\ last.pre.ec2.instances[id].spot_type = "one-time"
          /\ ec2.instances[id].state = "shutting-down"

\* The calls of the last invocation to `api` that name `target`.
CallsOn(api, target) == {i \in CallsTo(api) : calls[i].target = target}

Zero == [MinSize |-> 0, MaxSize |-> 0, DesiredCapacity |-> 0]

\* C12: a successful non-dry-run asg.fail_az issues, for every target group
\* that spans one AZ, exactly one update call, with MinSize, MaxSize and
\* DesiredCapacity 0; it neither suspends a process of the group nor changes
\* its subnets, and the group's record holds the capacities the group had
\* before as Before and 0/0/0 as After.
C12_SingleAzCapacityZero ==
    (/\ last.op = "fail_az" /\ last.svc = "asg"
     /\ ~last.req.dry_run /\ last.result = "ok") =>
        \A g \in asg_targets(last.pre.asgs, last.req.az, last.req.tags) :
            asg_in_single_az(last.pre.asgs, g) =>
                LET before == last.pre.asgs[g]
                    updates == CallsOn("update_auto_scaling_group", g)
                IN /\ Cardinality(updates) = 1
                   /\ \A u \in updates : calls[u].args = Zero
                   /\ CallsOn("suspend_processes", g) = {}
                   /\ asgs[g].VPCZoneIdentifier = before.VPCZoneIdentifier
                   /\ asgs[g].SuspendedProcesses = before.SuspendedProcesses
                   /\ \E k \in DOMAIN last.doc.AutoScalingGroups :
                         LET r == last.doc.AutoScalingGroups[k]
                         IN /\ r.AutoScalingGroupName = g
                            /\ r.Before = [MinSize |-> before.MinSize,
                                           MaxSize |-> before.MaxSize,
                                           DesiredCapacity |-> before.DesiredCapacity]
                            /\ r.After = Zero

\* A single-AZ group with capacities above zero was scaled to zero.
C12_Witness ==
    /\ last.op = "fail_az" /\ last.svc = "asg"
    /\ ~last.req.dry_run /\ last.result = "ok"
    /\ \E g \in asg_targets(last.pre.asgs, last.req.az, last.req.tags) :
          /\ asg_in_single_az(last.pre.asgs, g)
          /\ last.pre.asgs[g].MinSize > 0
          /\ asgs[g].MaxSize = 0

\* The subnets of a group that lie outside `az`, in the group's order.
NonAzSubnets(g, az) ==
    SelectSeq(split(g.VPCZoneIdentifier),
              LAMBDA s : s \in Subnets /\ SubnetAZ[s] # az)

\* C13: in a non-dry-run asg.fail_az, every target group that spans several
\* AZs and that the loop reaches gets a suspend-processes call for
\* AZRebalance and, after it, an update call whose VPCZoneIdentifier is the
\* comma-joined list of the group's subnets outside the target AZ; no update
\* of the group changes its capacity.
C13_SuspendBeforeShrink ==
    (/\ last.op = "fail_az" /\ last.svc = "asg"
     /\ ~last.req.dry_run /\ last.error \notin Rejections) =>
        \A g \in asg_targets(last.pre.asgs, last.req.az, last.req.tags) :
            (/\ ~asg_in_single_az(last.pre.asgs, g)
             /\ CallsOn("describe_auto_scaling_groups", g) # {}) =>
                /\ \E s \in CallsOn("suspend_processes", g),
                      u \in CallsOn("update_auto_scaling_group", g) :
                        /\ s < u
                        /\ calls[s].args = {"AZRebalance"}
                        /\ calls[u].args =
                              [VPCZoneIdentifier |->
                                  join(NonAzSubnets(last.pre.asgs[g], last.req.az))]
                /\ \A u \in CallsOn("update_auto_scaling_group", g) :
                      DOMAIN calls[u].args = {"VPCZoneIdentifier"}

\* The groups a state document of asg.fail_az or eks.fail_az records.
RecordedGroups(svc, doc) ==
    IF svc = "asg" THEN Range(doc.AutoScalingGroups)
    ELSE UNION {UNION {Range(doc.Clusters[c].NodeGroups[n].AutoScalingGroups) :
                          n \in DOMAIN doc.Clusters[c].NodeGroups} :
                  c \in DOMAIN doc.Clusters}

\* C14: a successful recover_az of asg or eks issues resume-processes for a
\* recorded group exactly when the record says AZRebalance was active before
\* (Before.AZRebalance = true), and then for AZRebalance only.  When the
\* rollback inverts the fail_az that wrote the file, Before.AZRebalance is
\* what the group showed before that fail_az suspended anything, and a group
\* whose AZRebalance was suspended beforehand is still suspended afterwards.
C14_ResumeOnlyIfActiveBefore ==
    (/\ last.op = "recover_az" /\ last.svc \in {"asg", "eks"}
     /\ last.result = "ok") =>
        \A r \in RecordedGroups(last.svc, last.doc) :
            "AZRebalance" \in DOMAIN r.Before =>
                LET g == r.AutoScalingGroupName
                    resumes == CallsOn("resume_processes", g)
                IN /\ (resumes # {}) <=> r.Before.AZRebalance
                   /\ \A i \in resumes : calls[i].args = {"AZRebalance"}
                   /\ last.inverts =>
                        LET before == last.pre.asgs[g].SuspendedProcesses
                        IN /\ r.Before.AZRebalance <=> "AZRebalance" \notin before
                           /\ asgs[g].SuspendedProcesses = before

\* A rollback that gave a group its subnets back and left its AZRebalance
\* suspended, as it was before fail_az.
C14_Witness ==
    /\ last.op = "recover_az" /\ last.svc = "eks"
    /\ last.result = "ok" /\ last.inverts
    /\ \E r \in RecordedGroups(last.svc, last.doc) :
          /\ "AZRebalance" \in DOMAIN r.Before
          /\ ~r.Before.AZRebalance
          /\ "AZRebalance" \in asgs[r.AutoScalingGroupName].SuspendedProcesses
          /\ CallsOn("update_auto_scaling_group", r.AutoScalingGroupName) # {}

\* The subnets a successful network fail_az of ec2 or eks recorded.
RecordedSubnets(svc, doc) ==
    IF svc = "ec2" THEN {doc.Subnets[k].SubnetId : k \in DOMAIN doc.Subnets}
    ELSE UNION {UNION {{doc.Clusters[c].NodeGroups[n].Subnets[k].SubnetId :
                            k \in DOMAIN doc.Clusters[c].NodeGroups[n].Subnets} :
                          n \in DOMAIN doc.Clusters[c].NodeGroups} :
                  c \in DOMAIN doc.Clusters}

\* The subnets whose ACL association one invocation replaced.
Reassociated == {sn \in Subnets : ec2.assoc[sn] # last.pre.ec2.assoc[sn]}

\* C15: one non-dry-run network fail_az of ec2 or eks creates at most one
\* network ACL per VPC, and one only for a VPC in which it re-associates a
\* subnet; a subnet that was on an ACL tagged Name = blackhole_nacl before
\* keeps its association and is not recorded, so that a pass over subnets
\* that are all blackholed already creates no ACL.
C15_OneBlackholePerVpc ==
    (/\ last.op = "fail_az" /\ last.svc \in {"ec2", "eks"}
     /\ ~last.req.dry_run /\ last.req.failure_type = "network"
     /\ last.error \notin Rejections) =>
        /\ \A v \in {VpcOf[sn] : sn \in Subnets} :
              /\ Cardinality(CallsOn("create_network_acl", v)) <= 1
              /\ CallsOn("create_network_acl", v) # {} =>
                    \E sn \in Reassociated : VpcOf[sn] = v
        /\ \A sn \in Subnets :
              is_blackhole(last.pre.ec2, last.pre.ec2.assoc[sn].NetworkAclId) =>
                 /\ sn \notin Reassociated
                 /\ last.result = "ok" => sn \notin RecordedSubnets(last.svc, last.doc)

\* C15 for ec2.fail_az alone, which runs the network strategy once.
C15_Ec2OneBlackholePerVpc ==
    last.svc = "ec2" => C15_OneBlackholePerVpc

\* The application load balancers that elbv2.fail_az selects and that have
\* a subnet in the target AZ.
AlbTargets ==
    {lb \in elbv2_targets(last.pre.albs, last.req.az, last.req.tags) :
        /\ last.pre.albs[lb].Type = "application"
        /\ \E sn \in last.pre.albs[lb].Subnets : SubnetAZ[sn] = last.req.az}

\* C16: in a non-dry-run elbv2.fail_az, a selected application load
\* balancer with a subnet in the target AZ gets no set-subnets call other
\* than one with exactly its subnets outside the target AZ, and exactly one
\* such call when fail_az succeeds; if it has fewer than 3 AZs, fail_az
\* ends with the validation error and no set-subnets call names it.
C16_AlbSetSubnetsComplement ==
    (/\ last.op = "fail_az" /\ last.svc = "elbv2"
     /\ ~last.req.dry_run /\ last.error \notin Rejections) =>
        \A lb \in AlbTargets :
           LET before == last.pre.albs[lb].Subnets
               rest == {sn \in before : SubnetAZ[sn] # last.req.az}
           IN IF Cardinality(before) < 3
              THEN /\ last.error = "LB requires at least 2 AZs to operate"
                   /\ CallsOn("set_subnets", lb) = {}
                   /\ albs[lb].Subnets = before
              ELSE /\ Cardinality(CallsOn("set_subnets", lb)) <= 1
                   /\ \A i \in CallsOn("set_subnets", lb) : calls[i].args = sorted(rest)
                   /\ last.result = "ok" =>
                         /\ CallsOn("set_subnets", lb) # {}
                         /\ albs[lb].Subnets = rest

\* C16 witness: one fail_az that moved an application load balancer of
\* three AZs to its two subnets outside the target AZ and then raised the
\* validation error for an application load balancer of two AZs.
C16_Witness ==
    /\ last.op = "fail_az" /\ last.svc = "elbv2" /\ ~last.req.dry_run
    /\ last.error = "LB requires at least 2 AZs to operate"
    /\ \E a, b \in AlbTargets :
          /\ Cardinality(last.pre.albs[a].Subnets) = 3
          /\ CallsOn("set_subnets", a) # {}
          /\ Cardinality(albs[a].Subnets) = 2
          /\ Cardinality(last.pre.albs[b].Subnets) = 2

\* C17: an elbv2.fail_az whose selected load balancers (tagged, with a
\* subnet in the target AZ) include one of type network ends with an error
\* and returns no document.
C17_NetworkLbRejected ==
    (/\ last.op = "fail_az" /\ last.svc = "elbv2"
     /\ last.error \notin Rejections
     /\ \E lb \in elbv2_targets(last.pre.albs, last.req.az, last.req.tags) :
           last.pre.albs[lb].Type = "network") =>
        last.result = "error"

\* The load balancers of the default VPC that an elb.fail_az acts on.
DefaultVpcTargets ==
    Range(filter_lbs_in_default_vpc(last.pre.elbs,
              elb_tagged_lb_names(last.pre.elbs, last.req.az, last.req.lb_names,
                                  last.req.tags)))

Disable == "disable_availability_zones_for_load_balancer"

\* C18: in a non-dry-run elb.fail_az a load balancer of the default VPC
\* gets a disable-availability-zones call only if it had at least 2 enabled
\* AZs before; with fewer than 2, fail_az ends with an error and issues no
\* such call for it; no load balancer is left without an enabled AZ.
C18_DisableNeedsTwoAzs ==
    (/\ last.op = "fail_az" /\ last.svc = "elb"
     /\ ~last.req.dry_run /\ last.error \notin Rejections) =>
        \A lb \in DefaultVpcTargets :
           /\ Len(last.pre.elbs[lb].AvailabilityZones) < 2 =>
                 /\ last.result = "error"
                 /\ CallsOn(Disable, lb) = {}
           /\ elbs[lb].AvailabilityZones # <<>>

Detach == "detach_load_balancer_from_subnets"

\* The records of load balancer lb in a document of elb.fail_az.
ElbRecords(doc, lb) ==
    {k \in DOMAIN doc.LoadBalancers : doc.LoadBalancers[k].LoadBalancerName = lb}

\* C19: in a non-dry-run elb.fail_az every load balancer gets at most one
\* mutating call: a load balancer of the default VPC a disable call for
\* exactly the target AZ, any other one a detach call for exactly its
\* subnets of the target AZ.  When fail_az succeeds, a load balancer that
\* got a call has one record, whose After is what the call returned: the
\* subnets or AZs the load balancer is left with.
C19_OneCallByVpc ==
    (/\ last.op = "fail_az" /\ last.svc = "elb"
     /\ ~last.req.dry_run /\ last.error \notin Rejections) =>
        \A lb \in LBNames :
           LET before == last.pre.elbs[lb]
               mine == {i \in Mutations : calls[i].target = lb}
           IN /\ Cardinality(mine) <= 1
              /\ \A i \in mine :
                    /\ IF before.VPCId = DefaultVpc
                       THEN calls[i].api = Disable /\ calls[i].args = <<last.req.az>>
                       ELSE /\ calls[i].api = Detach
                            /\ calls[i].args =
                                  SelectSeq(before.Subnets,
                                            LAMBDA sn : SubnetAZ[sn] = last.req.az)
                    /\ last.result = "ok" =>
                          /\ Cardinality(ElbRecords(last.doc, lb)) = 1
                          /\ \A k \in ElbRecords(last.doc, lb) :
                                IF before.VPCId = DefaultVpc
                                THEN last.doc.LoadBalancers[k].After =
                                        [AvailabilityZones |-> elbs[lb].AvailabilityZones]
                                ELSE last.doc.LoadBalancers[k].After =
                                        [SubnetIds |-> elbs[lb].Subnets]

\* C19 witness: a successful fail_az that detached a load balancer of vpc-1
\* from some but not all of its subnets and disabled the AZ of a load
\* balancer of the default VPC.
C19_Witness ==
    /\ last.op = "fail_az" /\ last.svc = "elb"
    /\ ~last.req.dry_run /\ last.result = "ok"
    /\ \E a, b \in LBNames :
          /\ CallsOn(Detach, a) # {} /\ elbs[a].Subnets # <<>>
          /\ CallsOn(Disable, b) # {}
          /\ Len(elbs[b].AvailabilityZones) < Len(last.pre.elbs[b].AvailabilityZones)

\* The AZs of the writer members of cluster c.
WriterAZs(r, c) ==
    {r.dbs[r.clusters[c].DBClusterMembers[k].DBInstanceIdentifier].AvailabilityZone :
        k \in {j \in DOMAIN r.clusters[c].DBClusterMembers :
                  r.clusters[c].DBClusterMembers[j].IsClusterWriter}}

\* C20: an rds.fail_az issues no failover-db-cluster call for, and lists in
\* neither cluster list of its document, a tagged Multi-AZ cluster whose
\* writer is not in the target AZ.
C20_WriterOutsideAzExcluded ==
    (last.op = "fail_az" /\ last.svc = "rds" /\ last.result = "ok") =>
        \A c \in DOMAIN last.pre.rds.clusters :
           (/\ HasTags(last.pre.rds.clusters[c].TagList, last.req.tags)
            /\ last.pre.rds.clusters[c].MultiAZ
            /\ last.req.az \notin WriterAZs(last.pre.rds, c)) =>
              /\ CallsOn("failover_db_cluster", c) = {}
              /\ c \notin Range(last.doc.DBInstances.Success.DBClusterIdentifiers)
              /\ c \notin Range(last.doc.DBInstances.Failed.DBClusterIdentifiers)

\* How often x occurs in the list q.
Occurrences(q, x) == Cardinality({k \in DOMAIN q : q[k] = x})

\* The Success and Failed lists of a document of rds or mq fail_az: the
\* identifiers of kind "instance", "cluster" or "broker".
ResultList(doc, kind, outcome) ==
    CASE kind = "instance" -> doc.DBInstances[outcome].DBInstanceIdentifiers
      [] kind = "cluster" -> doc.DBInstances[outcome].DBClusterIdentifiers
      [] kind = "broker" -> doc.Brokers[outcome].BrokerIds

\* The resources an rds or mq fail_az hands to its workers.
FanOut(svc, c, req) ==
    IF svc = "rds" THEN rds_tasks(c.rds, req.az, req.tags)
    ELSE {Task("broker", b) : b \in Range(activemq_brokers(c.mq, req.tags, req.az))}

\* Whether the service accepts the call for a resource in the cloud c.
Accepted(c, t) ==
    CASE t.kind = "instance" ->
            c.rds.dbs[t.id].MultiAZ /\ c.rds.dbs[t.id].DBInstanceStatus = "available"
      [] t.kind = "cluster" ->
            /\ c.rds.clusters[t.id].Status = "available"
            /\ \E k \in DOMAIN c.rds.clusters[t.id].DBClusterMembers :
                  ~c.rds.clusters[t.id].DBClusterMembers[k].IsClusterWriter
      [] t.kind = "broker" -> c.mq[t.id].BrokerState = "RUNNING"

\* C21: a non-dry-run fail_az of rds or mq returns with exactly one mutating
\* call issued for every resource it handed to a worker, whatever the other
\* calls did and in whatever order the workers ran; each of these resources
\* is listed exactly once in the document, under Success if its call was
\* accepted and under Failed if not, and nothing else is listed.
C21_FanOutCollectsAll ==
    (/\ last.op = "fail_az" /\ last.svc \in {"rds", "mq"}
     /\ ~last.req.dry_run /\ last.result = "ok") =>
        LET targets == FanOut(last.svc, last.pre, last.req)
            kinds == IF last.svc = "rds" THEN {"instance", "cluster"} ELSE {"broker"}
        IN /\ \A t \in targets :
                 LET right == IF Accepted(last.pre, t) THEN "Success" ELSE "Failed"
                     wrong == IF Accepted(last.pre, t) THEN "Failed" ELSE "Success"
                 IN /\ Cardinality({i \in Mutations : calls[i].target = t.id}) = 1
                    /\ Occurrences(ResultList(last.doc, t.kind, right), t.id) = 1
                    /\ Occurrences(ResultList(last.doc, t.kind, wrong), t.id) = 0
           /\ \A kind \in kinds, outcome \in {"Success", "Failed"} :
                 \A x \in Range(ResultList(last.doc, kind, outcome)) :
                    Task(kind, x) \in targets

\* C21 witness: an mq.fail_az with two workers in which the call that the
\* service rejected was issued before the call it accepted, and both
\* brokers are listed.
C21_Witness ==
    /\ last.op = "fail_az" /\ last.svc = "mq"
    /\ ~last.req.dry_run /\ last.result = "ok"
    /\ \E i, j \in CallsTo("reboot_broker") :
          /\ i < j
          /\ calls[i].target \in Range(last.doc.Brokers.Failed.BrokerIds)
          /\ calls[j].target \in Range(last.doc.Brokers.Success.BrokerIds)

\* C22: a non-dry-run asg.fail_az that has selected its target groups
\* returns a document, and every target group has received a mutating call,
\* also when the call for another target group failed.
C22_AsgFailureDoesNotAbort ==
    (/\ last.op = "fail_az" /\ last.svc = "asg" /\ ~last.req.dry_run
     /\ last.error \notin Rejections
     /\ asg_targets(last.pre.asgs, last.req.az, last.req.tags) # {}) =>
        /\ last.result = "ok"
        /\ \A g \in asg_targets(last.pre.asgs, last.req.az, last.req.tags) :
              \E i \in Mutations : calls[i].target = g

\* The document a recover_az read: the one it returned, or after a failure
\* the one still at its path.
RecoverDoc == IF last.result = "ok" THEN last.doc ELSE read_state(fs, last.path)

\* The instance records of a document of ec2 or eks.
InstanceRecords(svc, doc) ==
    IF svc = "ec2" THEN Range(doc.Instances)
    ELSE UNION {UNION {Range(doc.Clusters[c].NodeGroups[n].Instances) :
                          n \in DOMAIN doc.Clusters[c].NodeGroups} :
                  c \in DOMAIN doc.Clusters}

\* The instances of a document that a rollback may start.
Eligible(svc, doc) ==
    {r.InstanceId : r \in {x \in InstanceRecords(svc, doc) :
                              /\ x.Before.State \in {"pending", "running"}
                              /\ x.After.State = "stopping"}}

\* A recover_az of ec2 or eks that read the document of a real run.
Recovering ==
    /\ last.op = "recover_az" /\ last.svc \in {"ec2", "eks"}
    /\ last.found = "real"

\* C23: a recover_az of ec2 or eks that finds an eligible instance of its
\* document in live state 'stopping' fails without any mutating call and
\* leaves the cloud as it found it.
C23_StoppingBlocksRollback ==
    (/\ Recovering
     /\ \E id \in Eligible(last.svc, RecoverDoc) : last.live[id] = "stopping") =>
        /\ last.result = "error"
        /\ Mutations = {}
        /\ last.cloud_same

\* C23 for ec2.recover_az alone.
C23_Ec2StoppingBlocksRollback ==
    last.svc = "ec2" => C23_StoppingBlocksRollback

\* The instances the start-instances calls of an invocation name.
Started == UNION {Range(calls[i].args) : i \in CallsTo("start_instances")}

\* C24: a recover_az of ec2 or eks that finds no eligible instance of its
\* document in live state 'stopping' succeeds, whatever the live states
\* are: it starts exactly the eligible instances that are 'stopped', and
\* the state file is gone afterwards.
C24_RollbackSkipsOtherStates ==
    (/\ Recovering
     /\ \A id \in Eligible(last.svc, RecoverDoc) : last.live[id] # "stopping") =>
        /\ last.result = "ok"
        /\ Started = {id \in Eligible(last.svc, RecoverDoc) : last.live[id] = "stopped"}
        /\ ~isfile(fs, last.path)

\* C25: a recover_az of ec2 or eks passes to start_instances only
\* instances that its document records with Before state pending or
\* running and After state 'stopping' and that are 'stopped' when it runs.
C25_StartsOnlyEligibleStopped ==
    Recovering =>
        Started \subseteq {id \in Eligible(last.svc, RecoverDoc) :
                              last.live[id] = "stopped"}

\* A rollback that started an instance and left a recorded one-time spot
\* instance, terminated by the failure, alone.
C25_Witness ==
    /\ Recovering
    /\ Started # {}
    /\ \E r \in InstanceRecords(last.svc, RecoverDoc) :
          /\ r.After.State \in {"shutting-down", "terminated"}
          /\ r.InstanceId \notin Started


\* The eligible instances that the last recover_az found 'stopping'.
Stuck ==
    {id \in Eligible(last.svc, read_state(fs, last.path)) :
        last.live[id] = "stopping"}

\* The last call was a recover_az of ec2 or eks that failed on an instance
\* in state 'stopping', and every such instance is 'stopped' by now.
Settled ==
    /\ Recovering
    /\ last.result = "error" /\ last.error = "instance state is stopping"
    /\ \A id \in Stuck : ec2.instances[id].state = "stopped"

\* C26: a recover_az that is run again on the state file of a rollback
\* that failed on 'stopping' instances, once these are 'stopped', succeeds
\* and deletes the state file.
C26_RerunCompletes ==
    [][(/\ Settled
        /\ EC2RecoverAz \/ EKSRecoverAz
        /\ last'.path = last.path) =>
           /\ last'.result = "ok"
           /\ ~isfile(fs', last.path)]_vars

\* C26 for ec2.recover_az alone.
C26_Ec2RerunCompletes ==
    [][(Settled /\ EC2RecoverAz /\ last'.path = last.path) =>
           /\ last'.result = "ok"
           /\ ~isfile(fs', last.path)]_vars


\* The two cases of a letter.
Cases(c) ==
    CASE c = "t" -> {"t", "T"} [] c = "r" -> {"r", "R"} [] c = "u" -> {"u", "U"}
      [] c = "e" -> {"e", "E"} [] c = "f" -> {"f", "F"} [] c = "a" -> {"a", "A"}
      [] c = "l" -> {"l", "L"} [] c = "s" -> {"s", "S"} [] OTHER -> {c}

\* The string s spells the word, in whatever case.
Spells(s, word) ==
    /\ Len(s) = Len(word)
    /\ \A i \in DOMAIN s : s[i] \in Cases(word[i])

\* The boolean a dry_run value stands for: "true", "false", or "no" when it
\* stands for none (missing, None, any other string).
Meaning(kwargs) ==
    IF "dry_run" \notin DOMAIN kwargs THEN "no"
    ELSE LET v == kwargs.dry_run
         IN CASE v.type = "bool" -> IF v.bool THEN "true" ELSE "false"
              [] v.type = "str" /\ Spells(v.str, <<"t", "r", "u", "e">>) -> "true"
              [] v.type = "str" /\ Spells(v.str, <<"f", "a", "l", "s", "e">>) -> "false"
              [] OTHER -> "no"

\* A call of fail_az ended with the error of a missing dry_run flag, before
\* any API call and without a look at the state path.
RejectedForDryRun ==
    /\ last.result = "error" /\ last.error = "you must specify a dry_run"
    /\ calls = <<>>
    /\ last.fs_same /\ last.cloud_same

\* C27: a fail_az whose dry_run is missing, None or a string other than
\* true/false in some case ends with the configuration error of the missing
\* flag before any API call and before the state path is looked at; a
\* boolean or a string true/false in any case is taken as that boolean.
C27_DryRunRequired ==
    last.op = "fail_az" =>
        IF Meaning(last.req.kwargs) = "no" THEN RejectedForDryRun
        ELSE /\ ~RejectedForDryRun
             /\ last.result = "ok" =>
                   last.doc.DryRun = (Meaning(last.req.kwargs) = "true")

\* C27 for the calls that pass a dry_run argument, whatever its value.
C27_GivenDryRunChecked ==
    (last.op = "fail_az" /\ "dry_run" \in DOMAIN last.req.kwargs) =>
        IF Meaning(last.req.kwargs) = "no" THEN RejectedForDryRun
        ELSE /\ ~RejectedForDryRun
             /\ last.result = "ok" =>
                   last.doc.DryRun = (Meaning(last.req.kwargs) = "true")


\* C28: a fail_az whose request names no AZ ends with an error before any
\* API call, and the document of a successful fail_az, returned and
\* written, carries the AZ of the request.
C28_AzRequired ==
    last.op = "fail_az" =>
        IF last.req.az = None
        THEN last.result = "error" /\ calls = <<>> /\ last.fs_same
        ELSE last.result = "ok" =>
                /\ last.doc.AvailabilityZone = last.req.az
                /\ (last.path \in DOMAIN fs /\ isfile(fs, last.path)) =>
                      read_state(fs, last.path).AvailabilityZone = last.req.az

\* C28 for every fail_az but that of ec2.
C28_AzRequiredButEc2 ==
    last.svc # "ec2" => C28_AzRequired


\* The path ends in .json, in whatever case.
HasJsonExtension(path) ==
    Len(path) > 1 /\ path[Len(path)] \in {"json", "JSON", "Json"}

\* C29: validate_fail_az_path returns a path with the extension .json, in
\* any case, unchanged and any other path with .<service in lower case>.json
\* appended; called again on the path it returned it returns, when it
\* returns, that path; and it rejects a path that is a directory, for
\* fail_az and for recover_az.
C29_PathNormalization ==
    last.op = "validate_fail_az_path" =>
        /\ isdir(fs, last.req.path) => last.result = "error"
        /\ last.result = "ok" =>
              last.path = IF HasJsonExtension(last.req.path) THEN last.req.path
                          ELSE last.req.path \o
                                  <<IF last.svc = "ASG" THEN "asg" ELSE last.svc, "json">>
        /\ (last.req.again /\ last.result = "ok") => last.path = last.req.path

\* A second call on a path that the first call made from state.txt for the
\* service ASG.
C29_Witness ==
    /\ last.op = "validate_fail_az_path" /\ last.svc = "ASG"
    /\ last.req.again /\ last.result = "ok"
    /\ last.path = <<"state", "txt", "asg", "json">>


\* C29, with the second call required to return: it does not when the path
\* the first call made is a directory, which the first call does not see.
C29_SecondCallReturns ==
    (last.op = "validate_fail_az_path" /\ last.req.again) => last.result = "ok"


\* C30: of two fail_az that run side by side on the same state path, no
\* two that are no dry runs both get past the check of the path to change
\* groups and write the file, and none writes over the document of a run
\* that was no dry run.
C30_ConcurrentFailAzRejected ==
    /\ \A p \in Invocations : ~inflight[p].overwrote
    /\ \A p, q \in Invocations :
          (/\ p # q
           /\ ~inflight[p].dry_run /\ ~inflight[q].dry_run
           /\ inflight[p].pc \in {"ran", "done"})
              => inflight[q].pc \notin {"ran", "done"}


\* A dry run of fail_az that returned its document.
DryRunDone ==
    /\ last.op = "fail_az" /\ last.result = "ok" /\ last.req.dry_run

\* The Before block of every instance record is the state the instance was
\* in when fail_az began.
InstancesBeforeLive ==
    last.svc \in {"ec2", "eks"} =>
        \A r \in InstanceRecords(last.svc, last.doc) :
            r.Before.State = last.pre.ec2.instances[r.InstanceId].state

\* The same for the records of subnets, groups and load balancers.
OthersBeforeLive ==
    /\ last.svc = "ec2" =>
          \A k \in DOMAIN last.doc.Subnets :
             LET r == last.doc.Subnets[k]
                 a == last.pre.ec2.assoc[r.SubnetId]
             IN /\ r.Before.NetworkAclId = a.NetworkAclId
                /\ r.Before.NetworkAclAssociationId = a.NetworkAclAssociationId
    /\ last.svc = "asg" =>
          \A k \in DOMAIN last.doc.AutoScalingGroups :
             LET r == last.doc.AutoScalingGroups[k]
                 g == last.pre.asgs[r.AutoScalingGroupName]
             IN IF "MinSize" \in DOMAIN r.Before
                THEN /\ r.Before.MinSize = g.MinSize
                     /\ r.Before.MaxSize = g.MaxSize
                     /\ r.Before.DesiredCapacity = g.DesiredCapacity
                ELSE /\ r.Before.SubnetIds = g.VPCZoneIdentifier
                     /\ r.Before.AZRebalance = ("AZRebalance" \notin g.SuspendedProcesses)
    /\ last.svc = "elb" =>
          \A k \in DOMAIN last.doc.LoadBalancers :
             LET r == last.doc.LoadBalancers[k]
                 lb == last.pre.elbs[r.LoadBalancerName]
             IN IF "SubnetIds" \in DOMAIN r.Before
                THEN Range(r.Before.SubnetIds) = Range(lb.Subnets)
                ELSE Range(r.Before.AvailabilityZones) = Range(lb.AvailabilityZones)
    /\ last.svc = "elbv2" =>
          \A k \in DOMAIN last.doc.LoadBalancers :
             LET r == last.doc.LoadBalancers[k]
             IN Range(r.Before.SubnetIds) = last.pre.albs[r.LoadBalancerName].Subnets

\* C31: in the document of a dry run every record's Before block is the
\* state the resource was in when fail_az began: of an instance, a subnet,
\* a group, a load balancer.
C31_DryRunBeforeIsLive ==
    DryRunDone => InstancesBeforeLive /\ OthersBeforeLive

\* C31 for every kind of record but instances.
C31_DryRunBeforeIsLiveButInstances ==
    DryRunDone => OthersBeforeLive


\* A recover_az that found a state file it could not remove and got through
\* every inverse call: nothing but the removal can have failed.
RemovalFailed ==
    /\ last.op = "recover_az" /\ last.found = "real"
    /\ last.path \in DOMAIN fs /\ fs[last.path].pinned
    /\ last.error \in {"", "OSError"}

\* C32: a recover_az whose inverse calls all succeeded and that cannot
\* remove the state file returns success; the file stays as it was and each
\* inverse call was issued once.
C32_RemovalFailureIgnored ==
    RemovalFailed =>
        /\ last.result = "ok"
        /\ last.fs_same
        /\ \A i, j \in DOMAIN calls :
              (calls[i].api \in MutatingApis /\ calls[i] = calls[j]) => i = j

\* A rollback that changed the cloud and left the file it could not remove.
C32_Witness ==
    /\ RemovalFailed
    /\ last.result = "ok" /\ ~last.cloud_same
    /\ isfile(fs, last.path)


\* The subnet records of a document of ec2 or eks.
SubnetRecords(svc, doc) ==
    IF svc = "ec2" THEN Range(doc.Subnets)
    ELSE UNION {UNION {Range(doc.Clusters[c].NodeGroups[n].Subnets) :
                          n \in DOMAIN doc.Clusters[c].NodeGroups} :
                  c \in DOMAIN doc.Clusters}

\* The calls of the last invocation that delete the network ACL b.
DeletionsOf(b) ==
    {d \in CallsTo("delete_network_acl") : calls[d].args.NetworkAclId = b}

\* C33: in the network rollback of ec2.recover_az and eks.recover_az every
\* delete-network-ACL call comes after the calls that re-associate each
\* recorded subnet that was put on that ACL with its original ACL, no ACL
\* is deleted twice, and a rollback that succeeds has deleted each recorded
\* blackhole ACL exactly once.
C33_DeleteAfterReassociate ==
    Recovering =>
        /\ \A d \in CallsTo("delete_network_acl") :
              \A r \in SubnetRecords(last.svc, RecoverDoc) :
                 r.After.NetworkAclId = calls[d].args.NetworkAclId =>
                    \E i \in CallsTo("replace_network_acl_association") :
                       /\ i < d
                       /\ calls[i].args.AssociationId = r.After.NetworkAclAssociationId
                       /\ calls[i].args.NetworkAclId = r.Before.NetworkAclId
        /\ \A r \in SubnetRecords(last.svc, RecoverDoc) :
              /\ Cardinality(DeletionsOf(r.After.NetworkAclId)) <= 1
              /\ last.result = "ok" =>
                    Cardinality(DeletionsOf(r.After.NetworkAclId)) = 1

\* A rollback of an eks document with two node groups that each recorded a
\* subnet deleted two blackhole ACLs.
C33_Witness ==
    /\ Recovering /\ last.result = "ok"
    /\ Cardinality(CallsTo("delete_network_acl")) >= 2
    /\ Cardinality(CallsTo("replace_network_acl_association")) >= 2

\* A rollback of an ec2 document deleted a blackhole ACL.
C33_Ec2Witness ==
    /\ Recovering /\ last.svc = "ec2" /\ last.result = "ok"
    /\ CallsTo("delete_network_acl") # {}


\* The modules whose fail_az writes a state file.
StateServices == {"asg", "ec2", "eks", "elb", "elbv2"}

\* C34: a fail_az of asg, ec2, eks, elb or elbv2 that returns leaves at its
\* path a file whose contents are the returned document, with the
\* AvailabilityZone and DryRun of the request; a fail_az that ends with an
\* error, whatever calls it issued before, leaves the file system as it
\* found it: the single write comes after the last call.
C34_StateWrittenAtEnd ==
    (last.op = "fail_az" /\ last.svc \in StateServices) =>
        /\ last.result = "ok" =>
              /\ isfile(fs, last.path)
              /\ read_state(fs, last.path) = last.doc
              /\ last.doc.AvailabilityZone = last.req.az
              /\ last.doc.DryRun = last.req.dry_run
        /\ last.result = "error" => last.fs_same

\* A fail_az changed the cloud and then wrote its document.
C34_Witness ==
    /\ last.op = "fail_az" /\ last.svc \in StateServices
    /\ last.result = "ok" /\ ~last.req.dry_run
    /\ Mutations # {} /\ ~last.cloud_same
    /\ ~last.fs_same
    /\ read_state(fs, last.path) = last.doc

\* A fail_az issued a mutating call, ended with an error and left the file
\* system alone.
C34_ErrorWitness ==
    /\ last.op = "fail_az" /\ last.svc \in StateServices
    /\ last.result = "error" /\ Mutations # {}
    /\ last.fs_same


(***************************************************************************)
(* create_network_acl_entry, one attempt of its loop at a time.            *)
(* `ec2.acls[a].Entries` holds the entries of ACL a as (RuleNumber,        *)
(* Egress) pairs; `inflight` is the call: its request, the params dict     *)
(* as it stands, the error code of each attempt made and how it ended;     *)
(* `calls` logs the params of each client.create_network_acl_entry.        *)
(***************************************************************************)
MaxRule == 3

\* Lines 619-626: the params dict of create_network_acl_entry as
\* network_failure calls it.
EntryParams(acl_id, rule_num, egress) ==
    [NetworkAclId |-> acl_id, RuleNumber |-> rule_num, Protocol |-> "-1",
     CidrBlock |-> "0.0.0.0/0", Egress |-> egress, RuleAction |-> "DENY",
     PortRange |-> [From |-> 0, To |-> 65535]]

EntryKey(params) == [RuleNumber |-> params.RuleNumber, Egress |-> params.Egress]

\* client.create_network_acl_entry(**params): the error code, "ok" for an
\* accepted call, and the ACLs after it.  `fault` is an error of the service
\* that has nothing to do with the request.
api_create_network_acl_entry(e, params, fault) ==
    LET code ==
            IF fault THEN "RequestLimitExceeded"
            ELSE IF params.NetworkAclId \notin DOMAIN e.acls
            THEN "InvalidNetworkAclID.NotFound"
            ELSE IF params.RuleNumber \notin 1..MaxRule THEN "InvalidParameterValue"
            ELSE IF EntryKey(params) \in e.acls[params.NetworkAclId].Entries
            THEN "NetworkAclEntryAlreadyExists"
            ELSE "ok"
    IN [code |-> code,
        ec2 |-> IF code = "ok"
                THEN [e EXCEPT !.acls[params.NetworkAclId].Entries =
                                   @ \cup {EntryKey(params)}]
                ELSE e]

\* A loop that takes every error for a collision.
create_network_acl_entry_retry_any(st, e, fault) ==
    LET r == api_create_network_acl_entry(e, st.params, fault)
        tried == [st EXCEPT !.codes = Append(@, r.code)]
    IN IF r.code = "ok"
       THEN [st |-> [tried EXCEPT !.pc = "returned"], ec2 |-> r.ec2]
       ELSE [st |-> [tried EXCEPT !.params.RuleNumber = @ - 1], ec2 |-> r.ec2]

\* A loop that steps the rule number down by two.
create_network_acl_entry_by_two(st, e, fault) ==
    LET r == api_create_network_acl_entry(e, st.params, fault)
        tried == [st EXCEPT !.codes = Append(@, r.code)]
    IN IF r.code = "ok"
       THEN [st |-> [tried EXCEPT !.pc = "returned"], ec2 |-> r.ec2]
       ELSE IF r.code = "NetworkAclEntryAlreadyExists"
       THEN [st |-> [tried EXCEPT !.params.RuleNumber = @ - 2], ec2 |-> r.ec2]
       ELSE [st |-> [tried EXCEPT !.pc = "raised", !.error = "FailedActivity"],
             ec2 |-> r.ec2]

\* Lines 628-645: one pass of `while True`.  The call returns (break), or
\* on NetworkAclEntryAlreadyExists lowers params["RuleNumber"] by one and
\* goes round again, or raises FailedActivity for any other ClientError.
create_network_acl_entry(st, e, fault) ==
    LET r == api_create_network_acl_entry(e, st.params, fault)
        tried == [st EXCEPT !.codes = Append(@, r.code)]
    IN IF r.code = "ok"
       THEN [st |-> [tried EXCEPT !.pc = "returned"], ec2 |-> r.ec2]
       ELSE IF r.code = "NetworkAclEntryAlreadyExists"
       THEN [st |-> [tried EXCEPT !.params.RuleNumber = @ - 1], ec2 |-> r.ec2]
       ELSE [st |-> [tried EXCEPT !.pc = "raised", !.error = "FailedActivity"],
             ec2 |-> r.ec2]

EntryAcls == {1, 2}

EntryInit ==
    /\ service = "ec2"
    /\ asgs = NoAsgs /\ elbs = NoElbs /\ albs = NoAlbs
    /\ rds = NoRds /\ mq = NoMq /\ eks = NoEks
    /\ LastInit
    /\ fs = [p \in AllPaths |-> NoFile]
    /\ \E entries \in SUBSET [RuleNumber : 1..MaxRule, Egress : BOOLEAN] :
          ec2 = [acls |-> [a \in {1} |->
                    [VpcId |-> "vpc-1", Tags |-> {BlackholeTag}, Entries |-> entries]]]
    /\ \E acl_id \in EntryAcls, rule_num \in 1..MaxRule, egress \in BOOLEAN :
          inflight = [pc |-> "try", request |-> EntryParams(acl_id, rule_num, egress),
                      params |-> EntryParams(acl_id, rule_num, egress),
                      codes |-> <<>>, error |-> ""]

\* client.create_network_acl_entry is called and answers with `code`.
EntryAttempt(code_in) ==
    /\ inflight.pc = "try"
    /\ \E fault \in BOOLEAN :
         \E o \in {create_network_acl_entry(inflight, ec2, fault)} :
            /\ o.st.codes[Len(o.st.codes)] \in code_in
            /\ inflight' = o.st
            /\ ec2' = o.ec2
            /\ calls' = Append(calls, Call("create_network_acl_entry", "",
                                           inflight.params))
    /\ UNCHANGED <<service, fs, asgs, elbs, albs, rds, mq, eks, last>>

EntryCreated == EntryAttempt({"ok"})

EntryCollides == EntryAttempt({"NetworkAclEntryAlreadyExists"})

EntryFails ==
    EntryAttempt({"RequestLimitExceeded", "InvalidNetworkAclID.NotFound",
                  "InvalidParameterValue"})

EntryNext == EntryCreated \/ EntryCollides \/ EntryFails

EntrySpec == EntryInit /\ [][EntryNext]_vars


\* C35: in one call of create_network_acl_entry the first request is the
\* caller's; a further request is issued only after the one before it
\* ended with NetworkAclEntryAlreadyExists, and it is that request with the
\* rule number lowered by one and nothing else changed; the call returns
\* exactly when a request was accepted, raises exactly when a request ended
\* with another error, and issues no request after either.
C35_RetryOnlyOnCollision ==
    /\ Len(inflight.codes) = Len(calls)
    /\ \A i \in DOMAIN calls :
          /\ calls[i].api = "create_network_acl_entry"
          /\ i = 1 => calls[i].args = inflight.request
          /\ i > 1 =>
                /\ inflight.codes[i - 1] = "NetworkAclEntryAlreadyExists"
                /\ calls[i].args =
                      [calls[i - 1].args EXCEPT !.RuleNumber = @ - 1]
    /\ inflight.pc = "returned" <=>
          (calls # <<>> /\ inflight.codes[Len(calls)] = "ok")
    /\ inflight.pc = "raised" <=>
          (/\ calls # <<>>
           /\ inflight.codes[Len(calls)]
                 \notin {"ok", "NetworkAclEntryAlreadyExists"})
    /\ inflight.pc = "returned" =>
          EntryKey(calls[Len(calls)].args)
              \in ec2.acls[inflight.request.NetworkAclId].Entries

\* The call collided twice and then created its entry.
C35_Witness ==
    /\ inflight.pc = "returned"
    /\ Len(calls) = 3
    /\ calls[3].args.RuleNumber = inflight.request.RuleNumber - 2

\* The call collided and then met another error.
C35_RaisedWitness ==
    /\ inflight.pc = "raised"
    /\ Len(calls) >= 2


\* C36: a non-dry-run fail_az of asg, ec2, eks, elb or elbv2 that issued a
\* mutating call ends by returning, with its document in the file at its
\* path; one that ends with an error has issued no mutating call and has
\* left the cloud as it found it.
C36_MutationsAreRecorded ==
    (/\ last.op = "fail_az" /\ last.svc \in StateServices
     /\ ~last.req.dry_run /\ Mutations # {}) =>
        /\ last.result = "ok"
        /\ isfile(fs, last.path)
        /\ read_state(fs, last.path) = last.doc
        /\ last.result = "error" => last.cloud_same

\* C36 for the errors of one module at a time.
C36_Ec2Recorded ==
    (/\ last.op = "fail_az" /\ last.svc = "ec2"
     /\ ~last.req.dry_run /\ Mutations # {}) => last.result = "ok"

C36_ElbRecorded ==
    (/\ last.op = "fail_az" /\ last.svc = "elb"
     /\ ~last.req.dry_run /\ Mutations # {}) => last.result = "ok"

C36_Elbv2Recorded ==
    (/\ last.op = "fail_az" /\ last.svc = "elbv2"
     /\ ~last.req.dry_run /\ Mutations # {}) => last.result = "ok"

C36_EksRecorded ==
    (/\ last.op = "fail_az" /\ last.svc = "eks"
     /\ ~last.req.dry_run /\ Mutations # {}) => last.result = "ok"


\* A recover_az of one of the modules that keep a state file found a file
\* at its path.
RecoverOnFile ==
    /\ last.op = "recover_az" /\ last.svc \in StateServices
    /\ last.found \in {"dry", "real"}

\* C37: a recover_az that finds a state file and ends with an error leaves
\* the file system as it found it, the file still at its path; the file
\* system is changed only by a recover_az that returns, and then by the
\* removal of that file alone.
C37_FailedRecoverKeepsFile ==
    RecoverOnFile =>
        /\ last.result = "error" =>
              /\ last.fs_same
              /\ isfile(fs, last.path)
              /\ Found(fs, last.path) = last.found
        /\ ~last.fs_same =>
              /\ last.result = "ok"
              /\ ~isfile(fs, last.path)
              /\ last.found = "real"

\* A rollback that had re-associated a subnet or resumed a group failed on
\* a later inverse call and kept its file.
C37_Witness ==
    /\ RecoverOnFile /\ last.found = "real"
    /\ last.result = "error"
    /\ Mutations # {} /\ ~last.cloud_same
    /\ isfile(fs, last.path) /\ last.fs_same

\* A recover_az refused the document of a dry run and kept it.
C37_DryWitness ==
    /\ RecoverOnFile /\ last.found = "dry"
    /\ last.result = "error" /\ isfile(fs, last.path)


(***************************************************************************)
(* The filters of ec2.fail_az.  A Python list is an object: `items` is     *)
(* what it holds and `shared` says whether it is the very object the       *)
(* caller passed, so that an append to it shows in the caller's list.      *)
(***************************************************************************)
CallerList(items) == [items |-> items, shared |-> TRUE]

\* A copy that is the caller's object again.
deepcopy_same_object(obj) == obj

\* copy.deepcopy(filters): a new object that holds equal items.
deepcopy(obj) == [obj EXCEPT !.shared = FALSE]

\* Line 119, `filters = deepcopy(filters) if filters else []`, and what the
\* caller's list holds once fail_az has appended to its own list (lines
\* 122-141 and 176-184), which then holds `grown`.
caller_filters(filters, grown) ==
    LET own == IF filters # <<>> THEN deepcopy(CallerList(filters))
               ELSE [items |-> <<>>, shared |-> FALSE]
    IN IF own.shared THEN grown ELSE filters

\* fail_az's own list when it ends.
fail_az_filters(az, filters, failure_type) ==
    LET fl == ec2_filters(az, filters)
    IN IF failure_type = "instance"
          /\ ~\E i \in DOMAIN fl : is_state_filter(fl[i])
       THEN Append(fl, Filter(<<"instance-state-name">>, instance_state_names))
       ELSE fl

FilterChoices ==
    {Filter(<<"tag", "env">>, {"prod"}),
     Filter(<<"availability-zone">>, {"az-a", "az-b"}),
     Filter(<<"instance-state-name">>, {"running"})}

MaxFilters == 2

FilterLists ==
    UNION {[1..n -> FilterChoices] : n \in 0..MaxFilters}

\* An account whose subnets and instances are tagged for the experiment.
FilterInit ==
    /\ service = "ec2"
    /\ asgs = NoAsgs /\ elbs = NoElbs /\ albs = NoAlbs
    /\ rds = NoRds /\ mq = NoMq /\ eks = NoEks
    /\ \E tags \in SubnetTagConfigs, a \in AclConfigs :
          /\ \A k \in DOMAIN a.acls : a.acls[k].Tags = {}
          /\ ec2 = EC2OfConfig(tags, a,
                       [id \in InstanceIds |->
                           Instance("az-a", Tagged, "normal", "", "running")])
    /\ LastInit
    /\ fs = [p \in AllPaths |-> NoFile]
    /\ inflight = <<>>

\* ec2.fail_az(az, dry_run=True, failure_type, filters) with any filters.
EC2FailAzFilters ==
    /\ service = "ec2"
    /\ \E az \in AZInputs, filters \in FilterLists,
          failure_type \in {"network", "instance"}, state_path \in PathInputs :
         \E vpc_ids \in Orders(vpcs_of(ec2_describe_subnets(
                                   ec2, ec2_filters(az, filters)))) :
            \E o \in {ec2_fail_az(World, fs, az, TRUE, failure_type,
                                  filters, state_path, vpc_ids)} :
               Commit("fail_az", "ec2",
                      [az |-> az, dry_run |-> TRUE, tags |-> filters,
                       failure_type |-> failure_type,
                       caller |-> caller_filters(filters,
                                     fail_az_filters(az, filters, failure_type))],
                      o)

FilterNext == EC2FailAzFilters

FilterSpec == FilterInit /\ [][FilterNext]_vars

\* The filter list of the first call of the last invocation, a discovery.
Discovery == calls[1].args

\* C38: an ec2.fail_az whose arguments pass the checks of az and filters
\* and whose path is accepted discovers its subnets or instances with a
\* filter list that holds a tag filter, the default one when the caller
\* gave none, and an availability-zone filter; the caller's list holds
\* after the call what it held before.
C38_DiscoveryFilters ==
    (last.op = "fail_az" /\ last.svc = "ec2") =>
        /\ last.req.caller = last.req.tags
        /\ last.error \notin Rejections =>
              /\ calls # <<>>
              /\ calls[1].api \in {"describe_subnets", "describe_instances"}
              /\ \E i \in DOMAIN Discovery : is_tag_filter(Discovery[i])
              /\ \E i \in DOMAIN Discovery : is_az_filter(Discovery[i])
              /\ (~\E k \in DOMAIN last.req.tags : is_tag_filter(last.req.tags[k]))
                    => default_tag_filter \in Range(Discovery)
              /\ \A k \in DOMAIN last.req.tags : last.req.tags[k] \in Range(Discovery)

\* A request without az, with an availability-zone filter and no tag
\* filter, was given the default tag filter.
C38_Witness ==
    /\ last.op = "fail_az" /\ last.svc = "ec2"
    /\ last.req.az = None /\ last.result = "ok"
    /\ last.req.tags = <<Filter(<<"availability-zone">>, {"az-a", "az-b"})>>
    /\ calls # <<>>
    /\ Len(Discovery) > Len(last.req.tags)
    /\ default_tag_filter \in Range(Discovery)
    /\ last.req.caller = last.req.tags

\* A request with az and a tag filter was given the availability-zone
\* filter.
C38_AzWitness ==
    /\ last.op = "fail_az" /\ last.svc = "ec2"
    /\ last.req.az = "az-a" /\ last.error \notin Rejections
    /\ last.req.tags = <<Filter(<<"tag", "env">>, {"prod"})>>
    /\ calls # <<>>
    /\ az_filter("az-a") \in Range(Discovery)


\* The brokers of the cloud c that carry every tag of `tags` and have a
\* subnet in az, on whatever page list_brokers returns them.
MatchingBrokers(c, tags, az) ==
    {b \in BrokerIds :
        /\ \A i \in DOMAIN tags : tags[i] \in c.mq[b].Tags
        /\ \E sn \in c.mq[b].SubnetIds : SubnetAZ[sn] = az}

\* C39: in mq.fail_az every broker that carries all requested tags and has
\* a subnet in the target AZ is examined, whatever page of list_brokers it
\* is on: its tags are listed, and in a run that is not a dry run an
\* ActiveMQ active/standby broker among them is asked to reboot.
C39_EveryPageExamined ==
    (/\ last.op = "fail_az" /\ last.svc = "mq"
     /\ last.error \notin ArgumentErrors) =>
        \A b \in MatchingBrokers(last.pre, last.req.tags, last.req.az) :
           /\ CallsOn("list_tags", b) # {}
           /\ (/\ ~last.req.dry_run /\ last.result = "ok"
               /\ last.pre.mq[b].EngineType = "ActiveMQ"
               /\ last.pre.mq[b].DeploymentMode = "ACTIVE_STANDBY_MULTI_AZ")
                 => CallsOn("reboot_broker", b) # {}

\* The brokers of the last page are examined and rebooted.
C39_LastPageExamined ==
    (/\ last.op = "fail_az" /\ last.svc = "mq"
     /\ last.error \notin ArgumentErrors) =>
        \A b \in MatchingBrokers(last.pre, last.req.tags, last.req.az)
                 \cap Range(listed_brokers(BrokerOrder)) :
           /\ CallsOn("list_tags", b) # {}
           /\ (/\ ~last.req.dry_run /\ last.result = "ok"
               /\ last.pre.mq[b].EngineType = "ActiveMQ"
               /\ last.pre.mq[b].DeploymentMode = "ACTIVE_STANDBY_MULTI_AZ")
                 => CallsOn("reboot_broker", b) # {}

====
